---------------------------- MODULE Spec2Model ----------------------------
(***************************************************************************)
(* Renewal / invoice auto-generation, reminder dispatch and status sweep   *)
(* of the vasifyCrm backend, as a state machine over the relational store. *)
(*                                                                         *)
(* Time is counted in ticks; TicksPerDay ticks make one calendar day.      *)
(* The process and the database run in UTC (node:22-alpine image, no TZ),  *)
(* so local and UTC calendar dates coincide.  A DATE column is a day       *)
(* number (days since 2024-01-01); a Date object or TIMESTAMP is a tick    *)
(* count.                                                                  *)
(***************************************************************************)
EXTENDS Integers, Sequences, FiniteSets, Bags, TLC

VARIABLES
    now,                \* the wall clock, in ticks
    renewal_reminders,  \* table renewal_reminders: id -> row
    whatsapp_messages,  \* table whatsapp_messages: the bag of its rows
    sweep,              \* reminder sweep runs: run -> locals of the handler
    invoices,           \* table invoices: committed rows in insertion order
    invoice_items,      \* table invoice_items: committed rows
    autoCall,           \* createAutoInvoice calls: call -> locals
    postCall,           \* POST /invoices requests: request -> locals and open transaction
    putCall,            \* PUT /invoices/:id requests: request -> locals and open transaction
    customers,          \* table customers: id -> row
    renewals,           \* table renewals: rows in insertion order
    genCall,            \* POST /renewals/auto-generate requests: request -> locals
    statusJob,          \* the midnight status cron callback: its position
    bCustomer,          \* buildRenewalFromCustomer / buildInvoiceFromCustomer: the customer argument
    bBody,              \* buildRenewalFromCustomer / buildInvoiceFromCustomer: the body argument
    built,              \* buildRenewalFromCustomer / buildInvoiceFromCustomer: the returned candidate
    addMonthsDate,      \* addMonths: the dateStr argument
    addMonthsN,         \* addMonths: the months argument
    addMonthsResult     \* addMonths: the returned value

vars == <<now, renewal_reminders, whatsapp_messages, sweep, invoices, invoice_items,
          autoCall, postCall, putCall, customers, renewals, genCall, statusJob,
          bCustomer, bBody, built, addMonthsDate, addMonthsN, addMonthsResult>>

varsReminder == <<renewal_reminders, whatsapp_messages, sweep>>

varsInvoice == <<invoices, invoice_items, autoCall, postCall, putCall>>

varsRenewal == <<renewals, genCall, statusJob>>

varsBuild == <<bCustomer, bBody, built, addMonthsDate, addMonthsN, addMonthsResult>>

-----------------------------------------------------------------------------
(* Bounds of the model *)

TicksPerDay == 2

MaxDay == 2

MaxSweepDay == 1

\* The statements of reminder sweeps the store rejects.
MaxFaults == 1

-----------------------------------------------------------------------------
(* Calendar: day number 0 is 2024-01-01 *)

IsLeapYear(y) == (y % 4 = 0 /\ y % 100 # 0) \/ y % 400 = 0

DaysInMonth(y, m) ==
    IF m = 2 THEN (IF IsLeapYear(y) THEN 29 ELSE 28)
    ELSE IF m \in {4, 6, 9, 11} THEN 30 ELSE 31

DaysInYear(y) == IF IsLeapYear(y) THEN 366 ELSE 365

RECURSIVE DaysBeforeYear(_)
DaysBeforeYear(y) ==
    IF y = 2024 THEN 0
    ELSE IF y > 2024 THEN DaysBeforeYear(y - 1) + DaysInYear(y - 1)
    ELSE DaysBeforeYear(y + 1) - DaysInYear(y)

RECURSIVE DaysBeforeMonth(_, _)
DaysBeforeMonth(y, m) ==
    IF m = 1 THEN 0 ELSE DaysBeforeMonth(y, m - 1) + DaysInMonth(y, m - 1)

\* The day number of year y, month m (1..12), day d; d may lie outside the
\* month, as in a JS Date whose fields overflow into the neighbouring month.
DayNumber(y, m, d) == DaysBeforeYear(y) + DaysBeforeMonth(y, m) + (d - 1)

RECURSIVE YearFrom(_, _)
YearFrom(n, y) ==
    IF n < DaysBeforeYear(y) THEN YearFrom(n, y - 1)
    ELSE IF n >= DaysBeforeYear(y + 1) THEN YearFrom(n, y + 1)
    ELSE y

YearOf(n) == YearFrom(n, 2024)

MonthOf(n) ==
    LET y == YearOf(n)
    IN  CHOOSE m \in 1..12 :
            /\ DayNumber(y, m, 1) <= n
            /\ n < DayNumber(y, m, 1) + DaysInMonth(y, m)

DateOf(n) == n - DayNumber(YearOf(n), MonthOf(n), 1) + 1

\* The calendar day a tick lies in, and the first tick of a day.
DayOfTick(t) == t \div TicksPerDay

Midnight(d) == d * TicksPerDay

\* Math.ceil(a / b) for b > 0.
CeilDiv(a, b) == -((-a) \div b)

-----------------------------------------------------------------------------
(* JavaScript values: a record of a kind k and a payload v *)

Undefined == [k |-> "undefined", v |-> 0]

Null == [k |-> "null", v |-> 0]

NaN == [k |-> "NaN", v |-> 0]

InvalidDate == [k |-> "InvalidDate", v |-> 0]

\* A string that is not a date, by its text.
Str(s) == [k |-> "string", v |-> s]

\* The date-only string 'YYYY-MM-DD' of day number d.
Ymd(d) == [k |-> "ymd", v |-> d]

Num(n) == [k |-> "number", v |-> n]

\* A Date object (or a TIMESTAMP column as mysql2 returns it) at tick t.
DateObj(t) == [k |-> "Date", v |-> t]

\* if (x), !x, x || y
Truthy(x) ==
    CASE x.k \in {"undefined", "null", "NaN"} -> FALSE
      [] x.k = "string" -> x.v # ""
      [] x.k = "number" -> x.v # 0
      [] OTHER -> TRUE

\* x ?? y
Nullish(x) == x.k \in {"undefined", "null"}

Coalesce(x, y) == IF Nullish(x) THEN y ELSE x

OrElse(x, y) == IF Truthy(x) THEN x ELSE y

\* Number(x)
ToNumber(x) ==
    CASE x.k = "number" -> x
      [] x.k = "null" -> Num(0)
      [] x.k = "string" /\ x.v = "" -> Num(0)
      [] x.k = "Date" -> x
      [] OTHER -> NaN

\* 1970-01-01, the value of new Date(null), as a day number.
UnixEpochDay == -(54 * 365 + 13)

\* new Date(value): a Date object, or Invalid Date.
NewDate(value) ==
    CASE value.k = "Date" -> value
      [] value.k = "ymd" -> DateObj(Midnight(value.v))
      [] value.k = "null" -> DateObj(Midnight(UnixEpochDay))
      [] value.k = "number" -> DateObj(Midnight(UnixEpochDay))
      [] OTHER -> InvalidDate

-----------------------------------------------------------------------------
(* routes/renewals.js and utils/helpers.js: the temporal helpers *)

toSqlDate(value) ==
    IF ~Truthy(value) THEN Null
    ELSE LET d == IF value.k = "Date" THEN value ELSE NewDate(value)
         IN  IF d.k = "InvalidDate" THEN Null
             ELSE Ymd(DayOfTick(d.v))

\* d.setMonth(d.getMonth() + months): the day number reached, the day of the
\* month kept even where the target month is shorter (the Date overflows).
SetMonth(n, months) ==
    LET total == (MonthOf(n) - 1) + months
    IN  DayNumber(YearOf(n) + (total \div 12), (total % 12) + 1, DateOf(n))

\* d.setDate(0): the last day of the month before the one n lies in.
\* d.setDate(0) left out: the overflowed date is kept.
SetDateZero_Keep(n) == n

SetDateZero(n) == DayNumber(YearOf(n), MonthOf(n), 0)

addMonths(dateStr, months) ==
    LET d == NewDate(dateStr)
    IN  IF d.k = "InvalidDate" THEN Null
        ELSE LET n     == DayOfTick(d.v)
                 day   == DateOf(n)
                 moved == SetMonth(n, months)
             IN  IF DateOf(moved) < day THEN Ymd(SetDateZero(moved))
                 ELSE Ymd(moved)

calculateDaysUntilExpiry(expiryDate) ==
    LET expiry == NewDate(expiryDate)
    IN  IF expiry.k = "InvalidDate" THEN NaN
        ELSE Num(CeilDiv(expiry.v - now, TicksPerDay))

\* a < b and a <= b on JS numbers: false as soon as one side is NaN.
JsLess(a, b) == a.k = "number" /\ b.k = "number" /\ a.v < b.v

\* a <= b read as a < b.
JsLessEq_Strict(a, b) == a.k = "number" /\ b.k = "number" /\ a.v < b.v

JsLessEq(a, b) == a.k = "number" /\ b.k = "number" /\ a.v <= b.v

-----------------------------------------------------------------------------
(* routes/renewals.js: buildRenewalFromCustomer *)

ExpiringSoonDays == 7

DefaultReminderDays == 30

finalExpiryOf(customer, body) ==
    IF Truthy(body.expiryDate) THEN toSqlDate(body.expiryDate)
    ELSE LET base        == OrElse(customer.created_at, Ymd(DayOfTick(now)))
             interval    == OrElse(customer.recurring_interval, Str("monthly"))
             monthsToAdd == IF interval = Str("yearly") THEN 12 ELSE 1
             computed    == addMonths(base, monthsToAdd)
         IN  toSqlDate(computed)

\* The classification applied whether or not the request carries a status.
finalStatusOf_Classified(customer, body, finalExpiry) ==
    LET days == calculateDaysUntilExpiry(finalExpiry)
    IN  IF JsLess(days, Num(0)) THEN Str("expired")
        ELSE IF JsLessEq(days, Num(ExpiringSoonDays)) THEN Str("expiring")
        ELSE Str("active")

finalStatusOf(customer, body, finalExpiry) ==
    IF ~Truthy(body.status)
    THEN LET days == calculateDaysUntilExpiry(finalExpiry)
         IN  IF JsLess(days, Num(0)) THEN Str("expired")
             ELSE IF JsLessEq(days, Num(ExpiringSoonDays)) THEN Str("expiring")
             ELSE Str("active")
    ELSE OrElse(body.status, OrElse(customer.default_renewal_status, Str("active")))

buildRenewalFromCustomer(customer, body) ==
    LET finalService == Coalesce(body.service,
                            Coalesce(customer.recurring_service,
                                Coalesce(customer.service, Str("Service"))))
        finalAmount == IF body.amount.k # "undefined" THEN ToNumber(body.amount)
                       ELSE IF ~Nullish(customer.recurring_amount)
                            THEN ToNumber(customer.recurring_amount)
                            ELSE Num(0)
        finalExpiry == finalExpiryOf(customer, body)
        finalReminderDays == IF body.reminderDays.k # "undefined"
                             THEN ToNumber(body.reminderDays)
                             ELSE Coalesce(customer.default_renewal_reminder_days,
                                           Num(DefaultReminderDays))
        finalNotes == Coalesce(body.notes, Coalesce(customer.default_renewal_notes, Null))
    IN  [service      |-> finalService,
         amount       |-> finalAmount,
         expiryDate   |-> finalExpiry,
         status       |-> finalStatusOf(customer, body, finalExpiry),
         reminderDays |-> finalReminderDays,
         notes        |-> finalNotes]

-----------------------------------------------------------------------------
(* A call of buildRenewalFromCustomer on a customer row and a request body *)

\* The value of `built` before the call has returned.
NotBuilt == [service |-> Undefined, amount |-> Undefined, expiryDate |-> Undefined,
             status |-> Undefined, reminderDays |-> Undefined, notes |-> Undefined]

Jan31 == DayNumber(2024, 1, 31)

Feb29 == DayNumber(2024, 2, 29)

\* created_at is a TIMESTAMP the store fills in; a SELECT that does not list
\* the column (POST /renewals) leaves the property undefined.
BuildCreatedAt == {Undefined, DateObj(Midnight(Jan31) + 1), DateObj(Midnight(Feb29))}

BuildExpiryDate == {Undefined, Str(""), Str("not-a-date"), Ymd(Feb29)}

BuildStatus == {Undefined, Str("active"), Str("renewed")}

BuildDefaultStatus == {Null, Str("renewed")}

BuildInterval == {Str("monthly"), Str("yearly")}

BuildClock ==
    {Midnight(Feb29 - 8) + 1, Midnight(Feb29 - 7), Midnight(Feb29), Midnight(Feb29 + 1)}

BuildCustomers ==
    [created_at                    : BuildCreatedAt,
     recurring_interval            : BuildInterval,
     recurring_service             : {Null},
     service                       : {Undefined},
     recurring_amount              : {Null},
     default_renewal_status        : BuildDefaultStatus,
     default_renewal_reminder_days : {Null},
     default_renewal_notes         : {Null}]

BuildBodies ==
    [service      : {Undefined},
     amount       : {Undefined},
     expiryDate   : BuildExpiryDate,
     status       : BuildStatus,
     reminderDays : {Undefined},
     notes        : {Undefined}]

InitBuild ==
    /\ now \in BuildClock
    /\ bCustomer \in BuildCustomers
    /\ bBody \in BuildBodies
    /\ built = NotBuilt
    /\ addMonthsDate = Undefined
    /\ addMonthsN = 0
    /\ addMonthsResult = Undefined
    /\ renewal_reminders = <<>>
    /\ whatsapp_messages = <<>>
    /\ sweep = <<>>
    /\ invoices = <<>>
    /\ invoice_items = <<>>
    /\ autoCall = <<>>
    /\ postCall = <<>>
    /\ putCall = <<>>
    /\ customers = <<>>
    /\ renewals = <<>>
    /\ genCall = <<>>
    /\ statusJob = "idle"

Build ==
    /\ built = NotBuilt
    /\ built' = buildRenewalFromCustomer(bCustomer, bBody)
    /\ UNCHANGED <<now, bCustomer, bBody, addMonthsDate, addMonthsN, addMonthsResult,
                   varsReminder, varsInvoice, varsRenewal, customers>>

NextBuild == Build

SpecBuild == InitBuild /\ [][NextBuild]_vars

\* C10: every candidate buildRenewalFromCustomer returns has a non-null
\* expiryDate, for every customer row and every override: an empty, malformed
\* or unparseable override expiryDate counts as absent and the date is derived.
C10_ExpiryNeverNull ==
    built # NotBuilt => built.expiryDate.k = "ymd"

\* C11: built with no override status for a customer whose
\* default_renewal_status is set, the candidate has that default as its
\* status; the classification by days until expiry does not replace it.
C11_DefaultStatusApplies ==
    ( /\ built # NotBuilt
      /\ ~Truthy(bBody.status)
      /\ Truthy(bCustomer.default_renewal_status) )
    => built.status = bCustomer.default_renewal_status

\* C12: an override status is returned as it was supplied, whatever the
\* customer, the expiry date and the clock.
C12_OverrideStatusKept ==
    (built # NotBuilt /\ Truthy(bBody.status)) => built.status = bBody.status

\* Override active on a candidate whose expiry date is before today.
C12_Witness ==
    /\ built # NotBuilt
    /\ bBody.status.k = "string"
    /\ bBody.status.v = "active"
    /\ built.expiryDate.k = "ymd"
    /\ Midnight(built.expiryDate.v) < now
    /\ built.status.k = "string"
    /\ built.status.v = "active"

\* daysUntil(expiryDate) of the returned candidate: the ceiling of the whole
\* days from the clock to the expiry date's midnight.
C13_DaysUntil == CeilDiv(Midnight(built.expiryDate.v) - now, TicksPerDay)

\* C13: built with no explicit status, the candidate is expired when
\* daysUntil < 0, expiring when 0 <= daysUntil <= 7 and active from 8 days on.
C13_AutoClassification ==
    ( /\ built # NotBuilt
      /\ ~Truthy(bBody.status)
      /\ built.expiryDate.k = "ymd" )
    => built.status = Str(IF C13_DaysUntil < 0 THEN "expired"
                          ELSE IF C13_DaysUntil <= 7 THEN "expiring"
                          ELSE "active")

\* The boundary: exactly 7 days to go, classified expiring.
C13_Witness ==
    /\ built # NotBuilt
    /\ ~Truthy(bBody.status)
    /\ built.expiryDate.k = "ymd"
    /\ C13_DaysUntil = 7
    /\ built.status = Str("expiring")

-----------------------------------------------------------------------------
(* A call of addMonths on a date and a number of months *)

\* The calendar days the calls range over: 2024 (a leap year) and 2025.
AddMonthsDays == 0 .. DayNumber(2025, 12, 31)

\* dateStr as a 'YYYY-MM-DD' string, or as the Date of a TIMESTAMP column
\* with a time of day; one string that is no date.
AddMonthsDates ==
    {Ymd(d) : d \in AddMonthsDays} \cup {DateObj(Midnight(d) + 1) : d \in AddMonthsDays}
        \cup {Str("not-a-date")}

\* monthsToAdd = interval === "yearly" ? 12 : 1
AddMonthsCounts == {1, 12}

InitAddMonths ==
    /\ addMonthsDate \in AddMonthsDates
    /\ addMonthsN \in AddMonthsCounts
    /\ addMonthsResult = Undefined
    /\ now = 0
    /\ bCustomer = Undefined
    /\ bBody = Undefined
    /\ built = NotBuilt
    /\ renewal_reminders = <<>>
    /\ whatsapp_messages = <<>>
    /\ sweep = <<>>
    /\ invoices = <<>>
    /\ invoice_items = <<>>
    /\ autoCall = <<>>
    /\ postCall = <<>>
    /\ putCall = <<>>
    /\ customers = <<>>
    /\ renewals = <<>>
    /\ genCall = <<>>
    /\ statusJob = "idle"

AddMonths ==
    /\ addMonthsResult.k = "undefined"
    /\ addMonthsResult' = addMonths(addMonthsDate, addMonthsN)
    /\ UNCHANGED <<now, addMonthsDate, addMonthsN, bCustomer, bBody, built,
                   varsReminder, varsInvoice, varsRenewal, customers>>

NextAddMonths == AddMonths

SpecAddMonths == InitAddMonths /\ [][NextAddMonths]_vars

\* The calendar day of the argument of the call.
C14_Day == IF addMonthsDate.k = "Date" THEN DayOfTick(addMonthsDate.v) ELSE addMonthsDate.v

\* The day of the month n months after C14_Day's month that has C14_Day's
\* day of the month, or the last day of that month when it is shorter.
C14_Clamped ==
    LET total == (MonthOf(C14_Day) - 1) + addMonthsN
        y     == YearOf(C14_Day) + (total \div 12)
        m     == (total % 12) + 1
        last  == DaysInMonth(y, m)
    IN  DayNumber(y, m, IF DateOf(C14_Day) < last THEN DateOf(C14_Day) ELSE last)

\* C14: for a valid date d and 1 or 12 months, addMonths returns the day of
\* the target month with d's day of the month, clamped to the last day of
\* the target month; it never runs over into the month after.
C14_AddMonthsClamps ==
    (addMonthsResult.k # "undefined" /\ addMonthsDate.k \in {"ymd", "Date"})
    => (addMonthsResult.k = "ymd" /\ addMonthsResult.v = C14_Clamped)

\* Jan 31 of a leap year plus one month: the last day of February.
C14_Witness ==
    /\ addMonthsDate.k = "ymd"
    /\ addMonthsDate.v = Jan31
    /\ addMonthsN = 1
    /\ addMonthsResult.k = "ymd"
    /\ addMonthsResult.v = Feb29

-----------------------------------------------------------------------------
(* services/scheduler: the midnight status sweep *)

ExpiringWindowDays == 30

RenewalStatuses == {"active", "expiring", "expired", "renewed"}

InvoiceStatuses == {"draft", "sent", "paid", "overdue", "cancelled"}

\* CURDATE() of the store.
CURDATE == DayOfTick(now)

\* The last tick of the model's clock.
LastTick == Midnight(MaxDay + 1) - 1

\* The first statement with the guard status = 'active' in place of status != 'expired'.
ExpireRow_OnlyActive(row) ==
    IF row.expiry_date < CURDATE /\ row.status = "active"
    THEN [row EXCEPT !.status = "expired"]
    ELSE row

\* UPDATE renewals SET status = 'expired'
\* WHERE expiry_date < CURDATE() AND status != 'expired'
\* The first statement as one stage of a chain: it expires only renewals
\* already expiring, from their expiry date on.
ExpireRow_Staged(row) ==
    IF row.expiry_date <= CURDATE /\ row.status = "expiring"
    THEN [row EXCEPT !.status = "expired"]
    ELSE row

ExpireRow(row) ==
    IF row.expiry_date < CURDATE /\ row.status # "expired"
    THEN [row EXCEPT !.status = "expired"]
    ELSE row

\* The second statement with the window's end excluded.
ExpiringRow_ExclusiveEnd(row) ==
    IF /\ CURDATE <= row.expiry_date
       /\ row.expiry_date < CURDATE + ExpiringWindowDays
       /\ row.status = "active"
    THEN [row EXCEPT !.status = "expiring"]
    ELSE row

\* The second statement without its guard on the status.
ExpiringRow_AnyStatus(row) ==
    IF /\ CURDATE <= row.expiry_date
       /\ row.expiry_date <= CURDATE + ExpiringWindowDays
    THEN [row EXCEPT !.status = "expiring"]
    ELSE row

\* UPDATE renewals SET status = 'expiring'
\* WHERE expiry_date BETWEEN CURDATE() AND DATE_ADD(CURDATE(), INTERVAL 30 DAY)
\* AND status = 'active'
ExpiringRow(row) ==
    IF /\ CURDATE <= row.expiry_date
       /\ row.expiry_date <= CURDATE + ExpiringWindowDays
       /\ row.status = "active"
    THEN [row EXCEPT !.status = "expiring"]
    ELSE row

\* The invoice statement with the guard status != 'paid' in place of status = 'sent'.
OverdueRow_Unpaid(row) ==
    IF row.due_date < CURDATE /\ row.status # "paid"
    THEN [row EXCEPT !.status = "overdue"]
    ELSE row

\* UPDATE invoices SET status = 'overdue' WHERE due_date < CURDATE() AND status = 'sent'
OverdueRow(row) ==
    IF row.due_date < CURDATE /\ row.status = "sent"
    THEN [row EXCEPT !.status = "overdue"]
    ELSE row

\* What no step of the status sweep touches.
statusFrame ==
    <<varsReminder, invoice_items, autoCall, postCall, putCall, customers, genCall, varsBuild>>

\* The cron callback before its first run.  today, renewalsBefore and
\* invoicesBefore record the date the statements saw and the tables as the
\* run found them; renewalsOk and invoicesOk record that no statement threw.
\* runs is 2 in a run that repeats a completed one on the same day, and
\* changed then records that the completed one had changed a row.
StatusJobIdle ==
    [pc |-> "idle", runs |-> 0, today |-> 0, renewalsOk |-> FALSE, invoicesOk |-> FALSE,
     renewalsBefore |-> <<>>, invoicesBefore |-> <<>>, changed |-> FALSE]

\* cron "0 0 * * *": the callback starts at the first tick of a day.
StatusStart ==
    /\ statusJob.pc = "idle"
    /\ now % TicksPerDay = 0
    /\ statusJob' = [pc |-> "expired", runs |-> 1, today |-> CURDATE,
                     renewalsOk |-> FALSE, invoicesOk |-> FALSE,
                     renewalsBefore |-> renewals, invoicesBefore |-> invoices,
                     changed |-> FALSE]
    /\ UNCHANGED <<now, renewals, invoices, statusFrame>>

\* updateRenewalStatuses, first statement.
StatusExpired ==
    /\ statusJob.pc = "expired"
    /\ renewals' = [i \in DOMAIN renewals |-> ExpireRow(renewals[i])]
    /\ statusJob' = [statusJob EXCEPT !.pc = "expiring"]
    /\ UNCHANGED <<now, invoices, statusFrame>>

\* updateRenewalStatuses, second statement, and its return.
StatusExpiring ==
    /\ statusJob.pc = "expiring"
    /\ renewals' = [i \in DOMAIN renewals |-> ExpiringRow(renewals[i])]
    /\ statusJob' = [statusJob EXCEPT !.pc = "overdue", !.renewalsOk = TRUE]
    /\ UNCHANGED <<now, invoices, statusFrame>>

\* A statement of updateRenewalStatuses throws: the catch logs it and the
\* function returns; the callback goes on to updateInvoiceStatuses.
StatusRenewalsError ==
    /\ statusJob.pc \in {"expired", "expiring"}
    /\ statusJob' = [statusJob EXCEPT !.pc = "overdue"]
    /\ UNCHANGED <<now, renewals, invoices, statusFrame>>

\* updateInvoiceStatuses: its statement, and the return of the callback.
StatusOverdue ==
    /\ statusJob.pc = "overdue"
    /\ invoices' = [i \in DOMAIN invoices |-> OverdueRow(invoices[i])]
    /\ statusJob' = [statusJob EXCEPT !.pc = "idle", !.invoicesOk = TRUE]
    /\ UNCHANGED <<now, renewals, statusFrame>>

StatusInvoicesError ==
    /\ statusJob.pc = "overdue"
    /\ statusJob' = [statusJob EXCEPT !.pc = "idle"]
    /\ UNCHANGED <<now, renewals, invoices, statusFrame>>

\* The clock advances.  A run of the callback, started at 00:00, is over
\* long before the next midnight.
StatusTick ==
    /\ now < LastTick
    /\ statusJob.pc # "idle" => (now + 1) % TicksPerDay # 0
    /\ now' = now + 1
    /\ UNCHANGED <<renewals, invoices, statusJob, statusFrame>>

StatusExpiryDates ==
    {0, 1, ExpiringWindowDays, ExpiringWindowDays + 1, ExpiringWindowDays + MaxDay + 1}

StatusRenewalRows ==
    [id : {0}, customer_id : {1}, status : RenewalStatuses, expiry_date : StatusExpiryDates]

StatusInvoiceRows ==
    [id : {1}, customer_id : {1}, invoice_number : {1}, status : InvoiceStatuses,
     due_date : 0 .. 1, created_at : {0}]

InitStatus ==
    /\ now = 0
    /\ \E r1 \in StatusRenewalRows, r2 \in StatusRenewalRows :
           renewals = <<[r1 EXCEPT !.id = 1], [r2 EXCEPT !.id = 2]>>
    /\ \E i1 \in StatusInvoiceRows : invoices = <<i1>>
    /\ statusJob = StatusJobIdle
    /\ renewal_reminders = <<>>
    /\ whatsapp_messages = <<>>
    /\ sweep = <<>>
    /\ invoice_items = <<>>
    /\ autoCall = <<>>
    /\ postCall = <<>>
    /\ putCall = <<>>
    /\ customers = <<>>
    /\ genCall = <<>>
    /\ bCustomer = Undefined
    /\ bBody = Undefined
    /\ built = NotBuilt
    /\ addMonthsDate = Undefined
    /\ addMonthsN = 0
    /\ addMonthsResult = Undefined

NextStatus ==
    \/ StatusStart
    \/ StatusExpired
    \/ StatusExpiring
    \/ StatusRenewalsError
    \/ StatusOverdue
    \/ StatusInvoicesError
    \/ StatusTick

SpecStatus == InitStatus /\ [][NextStatus]_vars

\* C6: once updateRenewalStatuses has completed, every renewal whose
\* expiry_date is before the sweep's today is expired, whatever its status
\* was before (active, expiring or renewed).
C6_PastExpiryIsExpired ==
    statusJob.renewalsOk =>
        \A i \in DOMAIN renewals :
            renewals[i].expiry_date < statusJob.today => renewals[i].status = "expired"

\* A sweep found a renewal expiring with expiry_date = yesterday and left it expired.
C6_Witness ==
    /\ statusJob.renewalsOk
    /\ \E i \in DOMAIN renewals :
           /\ statusJob.renewalsBefore[i].status = "expiring"
           /\ statusJob.renewalsBefore[i].expiry_date = statusJob.today - 1
           /\ renewals[i].status = "expired"

C7_InWindow(row, today) ==
    today <= row.expiry_date /\ row.expiry_date <= today + ExpiringWindowDays

\* C7: a completed renewal sweep has set to expiring exactly the renewals it
\* found active with today <= expiry_date <= today + 30; a renewal found
\* active with a later expiry_date is still active, and a renewal found
\* renewed with expiry_date >= today is unchanged.
C7_ExpiringExactlyActiveInWindow ==
    statusJob.renewalsOk =>
        \A i \in DOMAIN renewals :
            LET before == statusJob.renewalsBefore[i]
                after  == renewals[i]
            IN  /\ (after.status = "expiring" /\ before.status # "expiring")
                      <=> (before.status = "active" /\ C7_InWindow(before, statusJob.today))
                /\ (before.status = "active"
                      /\ before.expiry_date > statusJob.today + ExpiringWindowDays)
                      => after = before
                /\ (before.status = "renewed" /\ before.expiry_date >= statusJob.today)
                      => after = before

\* A sweep moved a renewal expiring on the last day of the window and left
\* alone one expiring the day after.
C7_Witness ==
    /\ statusJob.renewalsOk
    /\ \E i, j \in DOMAIN renewals :
           /\ statusJob.renewalsBefore[i].status = "active"
           /\ statusJob.renewalsBefore[i].expiry_date = statusJob.today + ExpiringWindowDays
           /\ renewals[i].status = "expiring"
           /\ statusJob.renewalsBefore[j].status = "active"
           /\ statusJob.renewalsBefore[j].expiry_date = statusJob.today + ExpiringWindowDays + 1
           /\ renewals[j].status = "active"

\* The moves of a renewal's status that go forward.
C8_ForwardMove(from, to) ==
    \/ from = to
    \/ <<from, to>> \in {<<"active", "expiring">>, <<"active", "expired">>,
                         <<"expiring", "expired">>, <<"renewed", "expired">>}

\* C8: over any sequence of status sweeps, every change of a renewal's status
\* goes forward along active -> expiring -> expired (a renewed renewal can
\* only become expired): never expired -> expiring or active, never
\* expiring -> active.
C8_StatusOnlyForward ==
    [][\A i \in DOMAIN renewals : C8_ForwardMove(renewals[i].status, renewals'[i].status)]_vars

\* One sweep moved a renewal from active to expiring and another from
\* expiring to expired.
C8_Witness ==
    /\ statusJob.renewalsOk
    /\ \E i, j \in DOMAIN renewals :
           /\ statusJob.renewalsBefore[i].status = "active"
           /\ renewals[i].status = "expiring"
           /\ statusJob.renewalsBefore[j].status = "expiring"
           /\ renewals[j].status = "expired"

\* C9: a completed invoice sweep has changed exactly the invoices it found
\* sent with due_date before today, to overdue; every other invoice (draft,
\* paid, cancelled, overdue, or sent and not yet past due) is as it was.
C9_OverdueExactlySentPastDue ==
    statusJob.invoicesOk =>
        \A i \in DOMAIN invoices :
            LET before == statusJob.invoicesBefore[i]
            IN  invoices[i] =
                    IF before.status = "sent" /\ before.due_date < statusJob.today
                    THEN [before EXCEPT !.status = "overdue"]
                    ELSE before

\* A sweep found a sent invoice past its due date and left it overdue.
C9_Witness ==
    /\ statusJob.invoicesOk
    /\ \E i \in DOMAIN invoices :
           /\ statusJob.invoicesBefore[i].status = "sent"
           /\ statusJob.invoicesBefore[i].due_date < statusJob.today
           /\ invoices[i].status = "overdue"

-----------------------------------------------------------------------------
(* The status sweep run a second time on the same day *)

\* updateRenewalStatuses and updateInvoiceStatuses are called again after a
\* run that went through, while CURDATE() is still that run's.
StatusRestart ==
    /\ statusJob.pc = "idle"
    /\ statusJob.renewalsOk /\ statusJob.invoicesOk
    /\ statusJob.runs = 1
    /\ statusJob.today = CURDATE
    /\ statusJob' = [pc |-> "expired", runs |-> 2, today |-> CURDATE,
                     renewalsOk |-> FALSE, invoicesOk |-> FALSE,
                     renewalsBefore |-> renewals, invoicesBefore |-> invoices,
                     changed |-> (renewals # statusJob.renewalsBefore
                                  \/ invoices # statusJob.invoicesBefore)]
    /\ UNCHANGED <<now, renewals, invoices, statusFrame>>

NextStatusTwice ==
    \/ StatusStart
    \/ StatusRestart
    \/ StatusExpired
    \/ StatusExpiring
    \/ StatusOverdue
    \/ StatusTick

SpecStatusTwice == InitStatus /\ [][NextStatusTwice]_vars

\* C29: a second run of the two functions on the same day leaves the
\* renewals and the invoices exactly as the first run left them.
C29_SecondRunChangesNothing ==
    (statusJob.runs = 2 /\ statusJob.renewalsOk /\ statusJob.invoicesOk) =>
        /\ renewals = statusJob.renewalsBefore
        /\ invoices = statusJob.invoicesBefore

\* A second run is over on a day whose first run had changed rows: past
\* renewals are expired, one in the window is expiring, the invoice overdue.
C29_Witness ==
    /\ statusJob.runs = 2 /\ statusJob.renewalsOk /\ statusJob.invoicesOk
    /\ statusJob.changed
    /\ \E i, j \in DOMAIN renewals :
           /\ renewals[i].status = "expired" /\ renewals[i].expiry_date < statusJob.today
           /\ renewals[j].status = "expiring" /\ renewals[j].expiry_date >= statusJob.today
    /\ invoices[1].status = "overdue"

-----------------------------------------------------------------------------
(* The status sweep under its schedule: the cron fires at every midnight and *)
(* the statements of the runs go through.                                   *)

\* The clock leaves the first tick of a day only once that day's run has
\* started: cron "0 0 * * *" fires at 00:00.
StatusTickScheduled ==
    /\ now % TicksPerDay = 0 => (statusJob.runs > 0 /\ statusJob.today = CURDATE)
    /\ StatusTick

\* Renewals whose expiry_date the clock of the model passes, and one it
\* does not pass.
LiveRenewalRows ==
    [id : {1}, customer_id : {1}, status : RenewalStatuses, expiry_date : 0 .. 1]

LaterRenewalRows ==
    [id : {2}, customer_id : {1}, status : RenewalStatuses,
     expiry_date : {MaxDay, ExpiringWindowDays + MaxDay + 1}]

InitStatusLive ==
    /\ now = 0
    /\ \E r1 \in LiveRenewalRows, r2 \in LaterRenewalRows : renewals = <<r1, r2>>
    /\ \E i1 \in StatusInvoiceRows : invoices = <<i1>>
    /\ statusJob = StatusJobIdle
    /\ renewal_reminders = <<>>
    /\ whatsapp_messages = <<>>
    /\ sweep = <<>>
    /\ invoice_items = <<>>
    /\ autoCall = <<>>
    /\ postCall = <<>>
    /\ putCall = <<>>
    /\ customers = <<>>
    /\ genCall = <<>>
    /\ bCustomer = Undefined
    /\ bBody = Undefined
    /\ built = NotBuilt
    /\ addMonthsDate = Undefined
    /\ addMonthsN = 0
    /\ addMonthsResult = Undefined

NextStatusLive ==
    \/ StatusStart
    \/ StatusExpired
    \/ StatusExpiring
    \/ StatusOverdue
    \/ StatusTickScheduled

\* Time goes on, and a run that has started goes through its statements.
SpecStatusLive ==
    /\ InitStatusLive
    /\ [][NextStatusLive]_vars
    /\ WF_vars(StatusStart)
    /\ WF_vars(StatusExpired)
    /\ WF_vars(StatusExpiring)
    /\ WF_vars(StatusOverdue)
    /\ WF_vars(StatusTickScheduled)

\* C28: with the clock advancing and the daily sweep running through, every
\* renewal whose expiry_date the clock passes ends up expired, whatever its
\* status was, and every invoice in status sent whose due_date the clock
\* passes ends up overdue.
C28_EventuallyExpiredAndOverdue ==
    /\ \A i \in 1 .. 2 :
           (renewals[i].expiry_date < MaxDay) ~> (renewals[i].status = "expired")
    /\ (invoices[1].status = "sent" /\ invoices[1].due_date < MaxDay)
           ~> (invoices[1].status = "overdue")

\* On a day after the first, a run has turned a renewed renewal past its
\* expiry_date into expired and a sent invoice past its due_date into
\* overdue.
C28_Witness ==
    /\ statusJob.renewalsOk /\ statusJob.invoicesOk
    /\ statusJob.today > 0
    /\ statusJob.renewalsBefore[1].status = "renewed"
    /\ renewals[1].expiry_date = statusJob.today - 1
    /\ renewals[1].status = "expired"
    /\ statusJob.invoicesBefore[1].status = "sent"
    /\ invoices[1].due_date = statusJob.today - 1
    /\ invoices[1].status = "overdue"

-----------------------------------------------------------------------------
(* services/scheduler sendRenewalReminders and POST /send-renewal-reminders:  *)
(* the reminder sweep.  Both run the same loop over the same tables.        *)

\* The runs that can be in flight: the cron callback and a request.
SweepRuns == {"cron", "post"}

ReminderIds == 1 .. 2

\* A JSON column holding the array of the integers in days.
JsonArray(days) == [k |-> "json", v |-> days]

parseJsonArray(value) ==
    IF value.k = "json" THEN value.v ELSE {}

\* A DATE column as mysql2 hands it over: NULL, or the Date of its midnight.
DateColumn(value) ==
    IF value.k = "ymd" THEN DateObj(Midnight(value.v)) ELSE Null

\* d.toISOString().split("T")[0]
IsoDate(d) == Ymd(DayOfTick(d.v))

\* SELECT rr.*, c.whatsapp_number AS customer_whatsapp FROM renewal_reminders rr
\* LEFT JOIN customers c ... WHERE rr.status = 'active'
\* AND c.whatsapp_number IS NOT NULL AND c.whatsapp_number != ''
\* The SELECT without its WHERE clause.
ReminderSelected_All(id) == TRUE

ReminderSelected(id) ==
    /\ renewal_reminders[id].status = "active"
    /\ renewal_reminders[id].customer_id \in DOMAIN customers
    /\ customers[renewal_reminders[id].customer_id].whatsapp_number.k = "string"
    /\ customers[renewal_reminders[id].customer_id].whatsapp_number.v # ""

JoinedRow(id) ==
    [id                 |-> id,
     customer_id        |-> renewal_reminders[id].customer_id,
     expiry_date        |-> DateObj(Midnight(renewal_reminders[id].expiry_date)),
     reminder_days      |-> renewal_reminders[id].reminder_days,
     last_reminder_sent |-> DateColumn(renewal_reminders[id].last_reminder_sent),
     whatsapp_template  |-> renewal_reminders[id].whatsapp_template,
     customer_whatsapp  |-> customers[renewal_reminders[id].customer_id].whatsapp_number]

RECURSIVE SelectFrom(_)
SelectFrom(id) ==
    IF id \notin ReminderIds THEN <<>>
    ELSE (IF ReminderSelected(id) THEN <<JoinedRow(id)>> ELSE <<>>) \o SelectFrom(id + 1)

SelectReminders == SelectFrom(1)

\* The text used when a reminder has no whatsapp_template.
DefaultTemplate ==
    Str("Hi {customerName}, your {serviceName} expires on {expiryDate}. Please renew to continue service.")

\* The loop's two guards on a row: the day offset matches and no reminder
\* went out today.
DaysUntilExpiry(reminder, today) == CeilDiv(reminder.expiry_date.v - today, TicksPerDay)

\* The loop without its first guard.
OffsetMatches_Always(reminder, today) == TRUE

\* The first guard read as "an offset has been reached": a missed offset
\* would be made up for on a later day.
OffsetMatches_Deferred(reminder, today) ==
    \E n \in parseJsonArray(reminder.reminder_days) : DaysUntilExpiry(reminder, today) <= n

OffsetMatches(reminder, today) ==
    DaysUntilExpiry(reminder, today) \in parseJsonArray(reminder.reminder_days)

\* The loop without its second guard.
SentToday_Never(reminder, today) == FALSE

SentToday(reminder, today) ==
    LET lastReminderDate == IF Truthy(reminder.last_reminder_sent)
                            THEN NewDate(reminder.last_reminder_sent) ELSE Null
        lastReminderStr  == IF Truthy(lastReminderDate) THEN IsoDate(lastReminderDate) ELSE Null
    IN  lastReminderStr = Ymd(DayOfTick(today))

ReminderDue(reminder, today) ==
    OffsetMatches(reminder, today) /\ ~SentToday(reminder, today)

SweepIdle ==
    [pc |-> "idle", reminders |-> <<>>, i |-> 0, today |-> 0, sentCount |-> 0,
     error |-> FALSE, faults |-> 0, abandoned |-> {}]

\* What no step of the reminder sweep touches.
reminderFrame == <<customers, varsInvoice, varsRenewal, varsBuild>>

\* The SELECT returns; today and todayStr are taken.
SweepSelect(p) ==
    /\ sweep[p].pc = "idle"
    /\ sweep' = [sweep EXCEPT ![p] = [pc |-> "loop", reminders |-> SelectReminders,
                                      i |-> 1, today |-> now, sentCount |-> 0,
                                      error |-> FALSE, faults |-> sweep[p].faults,
                                      abandoned |-> {}]]
    /\ UNCHANGED <<now, renewal_reminders, whatsapp_messages, reminderFrame>>

\* One turn of the loop that ends in a continue.
SweepSkip(p) ==
    /\ sweep[p].pc = "loop"
    /\ sweep[p].i <= Len(sweep[p].reminders)
    /\ ~ReminderDue(sweep[p].reminders[sweep[p].i], sweep[p].today)
    /\ sweep' = [sweep EXCEPT ![p].i = @ + 1]
    /\ UNCHANGED <<now, renewal_reminders, whatsapp_messages, reminderFrame>>

\* INSERT INTO whatsapp_messages (...) VALUES (?, ?, ?, 'sent', NOW()).
\* The field message is the text before its placeholders are filled in; the
\* field reminder stands for the service and expiry date filled in.
SweepInsert(p) ==
    /\ sweep[p].pc = "loop"
    /\ sweep[p].i <= Len(sweep[p].reminders)
    /\ LET reminder == sweep[p].reminders[sweep[p].i]
       IN  /\ ReminderDue(reminder, sweep[p].today)
           /\ whatsapp_messages' = whatsapp_messages (+) SetToBag(
                  {[customer_id  |-> reminder.customer_id,
                    phone_number |-> reminder.customer_whatsapp,
                    message      |-> OrElse(reminder.whatsapp_template, DefaultTemplate),
                    reminder     |-> reminder.id,
                    status       |-> "sent",
                    sent_at      |-> now]})
    /\ sweep' = [sweep EXCEPT ![p].pc = "update"]
    /\ UNCHANGED <<now, renewal_reminders, reminderFrame>>

\* The UPDATE without its WHERE clause: every reminder is stamped.
SweepUpdate_AllRows(p) ==
    /\ sweep[p].pc = "update"
    /\ renewal_reminders' =
           [id \in DOMAIN renewal_reminders |->
               [renewal_reminders[id] EXCEPT !.last_reminder_sent = Ymd(CURDATE)]]
    /\ sweep' = [sweep EXCEPT ![p].pc = "loop", ![p].i = @ + 1, ![p].sentCount = @ + 1]
    /\ UNCHANGED <<now, whatsapp_messages, reminderFrame>>

\* UPDATE renewal_reminders SET last_reminder_sent = CURDATE() WHERE id = ?
SweepUpdate(p) ==
    /\ sweep[p].pc = "update"
    /\ LET reminder == sweep[p].reminders[sweep[p].i]
       IN  renewal_reminders' =
               [renewal_reminders EXCEPT ![reminder.id].last_reminder_sent = Ymd(CURDATE)]
    /\ sweep' = [sweep EXCEPT ![p].pc = "loop", ![p].i = @ + 1, ![p].sentCount = @ + 1]
    /\ UNCHANGED <<now, whatsapp_messages, reminderFrame>>

\* The loop is over: the count is logged or sent back.
SweepFinish(p) ==
    /\ sweep[p].pc = "loop"
    /\ sweep[p].i > Len(sweep[p].reminders)
    /\ sweep' = [sweep EXCEPT ![p] = [SweepIdle EXCEPT !.faults = sweep[p].faults]]
    /\ UNCHANGED <<now, renewal_reminders, whatsapp_messages, reminderFrame>>

\* The last tick of the clock in the reminder sweep's model.
SweepLastTick == Midnight(MaxSweepDay + 1) - 1

SweepTick ==
    /\ now < SweepLastTick
    /\ now' = now + 1
    /\ UNCHANGED <<renewal_reminders, whatsapp_messages, sweep, reminderFrame>>

\* A run that starts while no other run is in flight.
SweepSelectAlone(p) ==
    /\ \A q \in SweepRuns : sweep[q].pc = "idle"
    /\ SweepSelect(p)

ReminderExpiryDates == {1, MaxSweepDay + 1}

ReminderDaySets == {{1}, 0 .. MaxSweepDay + 1}

\* Reminder 1 is active and varies in its dates; reminder 2 matches an offset
\* every day and varies in its status.
ReminderRows ==
    [customer_id : {1}, status : {"active"}, expiry_date : ReminderExpiryDates,
     reminder_days : {JsonArray(days) : days \in ReminderDaySets},
     last_reminder_sent : {Null}, whatsapp_template : {Null}]

OtherReminderRows ==
    [customer_id : {2}, status : {"active", "cancelled"}, expiry_date : {MaxSweepDay},
     reminder_days : {JsonArray(0 .. MaxSweepDay)},
     last_reminder_sent : {Null},
     whatsapp_template : {Str("{serviceName} ends on {expiryDate}")}]

InitReminder ==
    /\ now = 0
    /\ \E r1 \in ReminderRows, r2 \in OtherReminderRows :
           renewal_reminders = <<r1, r2>>
    /\ \E w \in {Null, Str(""), Str("+911234567890")} :
           customers = <<[id |-> 1, whatsapp_number |-> Str("+919876543210")],
                         [id |-> 2, whatsapp_number |-> w]>>
    /\ whatsapp_messages = EmptyBag
    /\ sweep = [p \in SweepRuns |-> SweepIdle]
    /\ invoices = <<>>
    /\ invoice_items = <<>>
    /\ autoCall = <<>>
    /\ postCall = <<>>
    /\ putCall = <<>>
    /\ renewals = <<>>
    /\ genCall = <<>>
    /\ statusJob = StatusJobIdle
    /\ bCustomer = Undefined
    /\ bBody = Undefined
    /\ built = NotBuilt
    /\ addMonthsDate = Undefined
    /\ addMonthsN = 0
    /\ addMonthsResult = Undefined

NextReminder ==
    \/ \E p \in SweepRuns : SweepSelect(p)
    \/ \E p \in SweepRuns : SweepSkip(p)
    \/ \E p \in SweepRuns : SweepInsert(p)
    \/ \E p \in SweepRuns : SweepUpdate(p)
    \/ \E p \in SweepRuns : SweepFinish(p)
    \/ SweepTick

SpecReminder == InitReminder /\ [][NextReminder]_vars

NextReminderSeq ==
    \/ \E p \in SweepRuns : SweepSelectAlone(p)
    \/ \E p \in SweepRuns : SweepSkip(p)
    \/ \E p \in SweepRuns : SweepInsert(p)
    \/ \E p \in SweepRuns : SweepUpdate(p)
    \/ \E p \in SweepRuns : SweepFinish(p)
    \/ SweepTick

SpecReminderSeq == InitReminder /\ [][NextReminderSeq]_vars

\* The statements the store has rejected so far, over the runs in S.
RECURSIVE FaultsOf(_)
FaultsOf(S) ==
    IF S = {} THEN 0
    ELSE LET p == CHOOSE q \in S : TRUE
         IN  sweep[p].faults + FaultsOf(S \ {p})

\* The store rejects a statement of the run: the SELECT, the INSERT of a due
\* reminder's message, or the UPDATE after it.  The throw leaves the loop
\* for the catch around the whole run, which logs it (or answers 500), and
\* the run is over; abandoned keeps the reminders after the failing one that
\* the run had found due and never reached.
SweepError(p) ==
    /\ FaultsOf(SweepRuns) < MaxFaults
    /\ \/ sweep[p].pc = "idle"
       \/ /\ sweep[p].pc = "loop"
          /\ sweep[p].i <= Len(sweep[p].reminders)
          /\ ReminderDue(sweep[p].reminders[sweep[p].i], sweep[p].today)
       \/ sweep[p].pc = "update"
    /\ sweep' = [sweep EXCEPT ![p] =
           [SweepIdle EXCEPT
               !.error = TRUE,
               !.faults = sweep[p].faults + 1,
               !.abandoned =
                   {sweep[p].reminders[j].id :
                       j \in {k \in sweep[p].i + 1 .. Len(sweep[p].reminders) :
                                 ReminderDue(sweep[p].reminders[k], sweep[p].today)}}]]
    /\ UNCHANGED <<now, renewal_reminders, whatsapp_messages, reminderFrame>>

\* reminder_days as the column may hold it: the JSON text of an array of
\* day offsets, of an empty array, or a text that does not parse.
FaultReminderRows ==
    [customer_id : {1}, status : {"active"}, expiry_date : ReminderExpiryDates,
     reminder_days : {JsonArray(days) : days \in ReminderDaySets \cup {{}}} \cup {Str("[1,")},
     last_reminder_sent : {Null}, whatsapp_template : {Null}]

InitReminderFault ==
    /\ now = 0
    /\ \E r1 \in FaultReminderRows, r2 \in OtherReminderRows :
           renewal_reminders = <<r1, r2>>
    /\ \E w \in {Null, Str(""), Str("+911234567890")} :
           customers = <<[id |-> 1, whatsapp_number |-> Str("+919876543210")],
                         [id |-> 2, whatsapp_number |-> w]>>
    /\ whatsapp_messages = EmptyBag
    /\ sweep = [p \in SweepRuns |-> SweepIdle]
    /\ invoices = <<>>
    /\ invoice_items = <<>>
    /\ autoCall = <<>>
    /\ postCall = <<>>
    /\ putCall = <<>>
    /\ renewals = <<>>
    /\ genCall = <<>>
    /\ statusJob = StatusJobIdle
    /\ bCustomer = Undefined
    /\ bBody = Undefined
    /\ built = NotBuilt
    /\ addMonthsDate = Undefined
    /\ addMonthsN = 0
    /\ addMonthsResult = Undefined

\* Runs one after another, over a store that may reject a statement.  The
\* runs do not overlap, so which trigger starts a run makes no difference:
\* they are the cron's.
FaultRuns == {"cron"}

NextReminderFault ==
    \/ \E p \in FaultRuns : SweepSelectAlone(p)
    \/ \E p \in FaultRuns : SweepSkip(p)
    \/ \E p \in FaultRuns : SweepInsert(p)
    \/ \E p \in FaultRuns : SweepUpdate(p)
    \/ \E p \in FaultRuns : SweepFinish(p)
    \/ \E p \in FaultRuns : SweepError(p)
    \/ SweepTick

SpecReminderFault == InitReminderFault /\ [][NextReminderFault]_vars

\* The number of notifications dispatched for reminder r on calendar day d.
RECURSIVE C1_Copies(_)
C1_Copies(rows) ==
    IF rows = {} THEN 0
    ELSE LET row == CHOOSE x \in rows : TRUE
         IN  CopiesIn(row, whatsapp_messages) + C1_Copies(rows \ {row})

C1_Dispatched(r, d) ==
    C1_Copies({row \in BagToSet(whatsapp_messages) :
                  row.reminder = r /\ DayOfTick(row.sent_at) = d})

C2_AtMostOncePerDayOverlapping ==
    \A r \in ReminderIds, d \in 0 .. MaxSweepDay : C1_Dispatched(r, d) <= 1

\* C19: when the dispatch or the recording for one reminder fails, the run
\* goes on: at its end every other reminder of the run that was due has had
\* its notification dispatched.
C19_SweepContinuesAfterFailure ==
    \A p \in SweepRuns :
        (sweep[p].pc = "idle" /\ sweep[p].error) => sweep[p].abandoned = {}

\* The days until a reminder's expiry date as seen at tick t.
C20_DaysUntil(id, t) == CeilDiv(Midnight(renewal_reminders[id].expiry_date) - t, TicksPerDay)

\* C20: a run dispatches for a reminder only when the days until its
\* expiry_date, counted from the run's today, are one of its reminder_days;
\* a reminder whose reminder_days is empty or does not parse is never
\* dispatched.
C20_DispatchOnlyOnOffset ==
    /\ \A p \in SweepRuns :
           sweep[p].pc = "update" =>
               LET id == sweep[p].reminders[sweep[p].i].id
               IN  /\ renewal_reminders[id].reminder_days.k = "json"
                   /\ C20_DaysUntil(id, sweep[p].today) \in renewal_reminders[id].reminder_days.v
    /\ \A m \in BagToSet(whatsapp_messages) :
           /\ renewal_reminders[m.reminder].reminder_days.k = "json"
           /\ \E t \in 0 .. m.sent_at :
                  C20_DaysUntil(m.reminder, t) \in renewal_reminders[m.reminder].reminder_days.v

\* A run has dispatched for its second reminder after passing a first one
\* whose reminder_days does not parse.
C20_Witness ==
    \E p \in SweepRuns :
        /\ sweep[p].pc = "update"
        /\ sweep[p].i = 2
        /\ sweep[p].reminders[1].reminder_days.k # "json"
        /\ \A m \in BagToSet(whatsapp_messages) : m.reminder # sweep[p].reminders[1].id

\* C21: no run dispatches for a reminder whose status is not active or whose
\* customer has a null or empty whatsapp_number: the rows a run works on, and
\* the reminders that got a message, are active ones with a number, and
\* every message went to that number.
C21_OnlyActiveWithContact ==
    /\ \A p \in SweepRuns : \A j \in 1 .. Len(sweep[p].reminders) :
           /\ renewal_reminders[sweep[p].reminders[j].id].status = "active"
           /\ sweep[p].reminders[j].customer_whatsapp.k = "string"
           /\ sweep[p].reminders[j].customer_whatsapp.v # ""
    /\ \A m \in BagToSet(whatsapp_messages) :
           /\ renewal_reminders[m.reminder].status = "active"
           /\ m.phone_number.k = "string"
           /\ m.phone_number.v # ""
           /\ customers[m.customer_id].whatsapp_number.k = "string"
           /\ customers[m.customer_id].whatsapp_number.v = m.phone_number.v

\* A run has gone through its rows and dispatched, on a day that matches an
\* offset of a cancelled reminder whose customer has a number; that reminder
\* was not among the rows.
C21_Witness ==
    \E p \in SweepRuns :
        /\ sweep[p].pc = "loop"
        /\ sweep[p].i > Len(sweep[p].reminders)
        /\ sweep[p].sentCount = 1
        /\ renewal_reminders[2].status = "cancelled"
        /\ Truthy(customers[2].whatsapp_number)
        /\ C20_DaysUntil(2, sweep[p].today) \in renewal_reminders[2].reminder_days.v
        /\ \A m \in BagToSet(whatsapp_messages) : m.reminder # 2

\* The same, for an active reminder whose customer has an empty number.
C21_WitnessNoContact ==
    \E p \in SweepRuns :
        /\ sweep[p].pc = "loop"
        /\ sweep[p].i > Len(sweep[p].reminders)
        /\ sweep[p].sentCount = 1
        /\ renewal_reminders[2].status = "active"
        /\ ~Truthy(customers[2].whatsapp_number)
        /\ C20_DaysUntil(2, sweep[p].today) \in renewal_reminders[2].reminder_days.v
        /\ \A m \in BagToSet(whatsapp_messages) : m.reminder # 2

\* C22: after a run, every reminder the run enqueued a notification for has
\* last_reminder_sent set to the day of that notification (or a later one),
\* and a reminder no run enqueued anything for keeps the last_reminder_sent
\* it had (none, in these stores).
C22_EnqueuedIsRecorded ==
    (\A p \in SweepRuns : sweep[p].pc = "idle") =>
        \A r \in ReminderIds :
            LET sent == {m \in BagToSet(whatsapp_messages) : m.reminder = r}
                last == renewal_reminders[r].last_reminder_sent
            IN  IF sent = {} THEN last.k = "null"
                ELSE /\ last.k = "ymd"
                     /\ \A m \in sent : last.v >= DayOfTick(m.sent_at)

\* C23: a missed offset is a missed reminder.  A run that dispatches for a
\* reminder on a day later than the day of an offset N does so on account of
\* another offset of reminder_days, the one that equals the days until expiry
\* on the run's day, whether or not anything was dispatched on N's day.
C23_MissedOffsetIsMissed ==
    \A p \in SweepRuns :
        sweep[p].pc = "update" =>
            LET id     == sweep[p].reminders[sweep[p].i].id
                expiry == renewal_reminders[id].expiry_date
                days   == parseJsonArray(renewal_reminders[id].reminder_days)
            IN  \A N \in days :
                    DayOfTick(sweep[p].today) > expiry - N =>
                        /\ C20_DaysUntil(id, sweep[p].today) # N
                        /\ C20_DaysUntil(id, sweep[p].today) \in days \ {N}
                        /\ DayOfTick(sweep[p].today) = expiry - C20_DaysUntil(id, sweep[p].today)

\* A run of day 1 dispatches for reminder 1 on account of the offset of that
\* day; the offset of day 0 was missed: a statement of a run failed and
\* nothing was dispatched for the reminder on day 0.
C23_Witness ==
    \E p \in SweepRuns :
        /\ sweep[p].pc = "update"
        /\ sweep[p].reminders[sweep[p].i].id = 1
        /\ DayOfTick(sweep[p].today) = 1
        /\ renewal_reminders[1].expiry_date \in parseJsonArray(renewal_reminders[1].reminder_days)
        /\ FaultsOf(SweepRuns) = 1
        /\ \A m \in BagToSet(whatsapp_messages) :
               m.reminder = 1 => DayOfTick(m.sent_at) = 1
        /\ C1_Dispatched(1, 1) = 1

\* C27: a step of a sweep run leaves every reminder's status, expiry_date,
\* reminder_days and template (and customer) as they were and leaves the
\* customers alone; it changes last_reminder_sent only of the reminder the
\* run has just dispatched for, to the current date; and the message log
\* only grows.
C27_SweepWritesOnly ==
    [][ /\ customers' = customers
        /\ whatsapp_messages \sqsubseteq whatsapp_messages'
        /\ \A id \in ReminderIds :
               /\ renewal_reminders'[id].status = renewal_reminders[id].status
               /\ renewal_reminders'[id].expiry_date = renewal_reminders[id].expiry_date
               /\ renewal_reminders'[id].reminder_days = renewal_reminders[id].reminder_days
               /\ renewal_reminders'[id].whatsapp_template = renewal_reminders[id].whatsapp_template
               /\ renewal_reminders'[id].customer_id = renewal_reminders[id].customer_id
               /\ renewal_reminders'[id].last_reminder_sent # renewal_reminders[id].last_reminder_sent
                      => /\ \E p \in SweepRuns :
                                /\ sweep[p].pc = "update"
                                /\ sweep[p].reminders[sweep[p].i].id = id
                         /\ \E m \in BagToSet(whatsapp_messages) : m.reminder = id
                         /\ renewal_reminders'[id].last_reminder_sent = Ymd(CURDATE)
      ]_vars

\* A run that selected two reminders is at its end: it dispatched for one
\* and stamped it, and the other still has no last_reminder_sent.
C27_Witness ==
    \E p \in SweepRuns :
        /\ sweep[p].pc = "loop"
        /\ sweep[p].i > Len(sweep[p].reminders)
        /\ Len(sweep[p].reminders) = 2
        /\ sweep[p].sentCount = 1
        /\ \E a, b \in ReminderIds :
               /\ renewal_reminders[a].last_reminder_sent.k = "ymd"
               /\ renewal_reminders[b].last_reminder_sent.k = "null"
               /\ renewal_reminders[b].status = "active"

-----------------------------------------------------------------------------
(* routes/customers.js createAutoInvoice and routes/invoices.js POST /invoices *)

MaxInvoiceTick == 1

MaxRandom == 1

DefaultAutoTaxRate == 18

DefaultAutoDueDays == 30

AutoCalls == {"a1", "a2"}

PostCalls == {"p1"}

InvoiceCustomerIds == 1 .. 2

\* An invoice number "INV-" ++ n ++ suffix: createAutoInvoice writes INV-NNN
\* (no suffix), generateInvoiceNumber writes INV-YYYYMM-RRR (suffix <<RRR>>).
AutoInvoiceNumber(n) == [n |-> n, suffix |-> <<>>]

\* parseInt(invoice_number.replace("INV-", ""), 10): the leading digits.
ParseInvoiceNumber(invoice_number) == invoice_number.n

\* generateInvoiceNumber with Math.random() giving random.
generateInvoiceNumber(random) ==
    [n |-> YearOf(CURDATE) * 100 + MonthOf(CURDATE), suffix |-> <<random>>]

\* SELECT invoice_number FROM invoices ORDER BY created_at DESC LIMIT 1:
\* any of the rows with the latest created_at.
LatestInvoices ==
    {k \in DOMAIN invoices :
        \A j \in DOMAIN invoices : invoices[j].created_at <= invoices[k].created_at}

NumberTaken(invoice_number) ==
    \E k \in DOMAIN invoices : invoices[k].invoice_number = invoice_number

\* amount + (amount * tax) / 100; the amounts of the model make it exact.
TotalOf(amount, tax) == amount + (amount * tax) \div 100

AutoIdle ==
    [pc |-> "idle", customerId |-> 0, invoiceNumber |-> AutoInvoiceNumber(0),
     result |-> Undefined, threw |-> FALSE, threwAt |-> "none"]

\* What no step of invoice creation touches.
invoiceFrame == <<putCall, customers, varsReminder, varsRenewal, varsBuild>>

\* createAutoInvoice(customerId, customer, userId) is called.
AutoStart(p, c) ==
    /\ autoCall[p].pc = "idle"
    /\ autoCall' = [autoCall EXCEPT ![p].pc = "last", ![p].customerId = c]
    /\ UNCHANGED <<now, invoices, invoice_items, postCall, invoiceFrame>>

\* The latest invoice is read and the next number derived from it.
AutoSelectLast(p) ==
    /\ autoCall[p].pc = "last"
    /\ \/ /\ invoices = <<>>
          /\ autoCall' = [autoCall EXCEPT ![p].pc = "check",
                                          ![p].invoiceNumber = AutoInvoiceNumber(1)]
       \/ \E k \in LatestInvoices :
              autoCall' = [autoCall EXCEPT
                  ![p].pc = "check",
                  ![p].invoiceNumber =
                      AutoInvoiceNumber(ParseInvoiceNumber(invoices[k].invoice_number) + 1)]
    /\ UNCHANGED <<now, invoices, invoice_items, postCall, invoiceFrame>>

\* SELECT id FROM invoices WHERE invoice_number = ?: a taken number ends the
\* call with null.
AutoCheck(p) ==
    /\ autoCall[p].pc = "check"
    /\ autoCall' = IF NumberTaken(autoCall[p].invoiceNumber)
                   THEN [autoCall EXCEPT ![p].pc = "done", ![p].result = Null]
                   ELSE [autoCall EXCEPT ![p].pc = "insert"]
    /\ UNCHANGED <<now, invoices, invoice_items, postCall, invoiceFrame>>

AutoInvoiceRow(p) ==
    LET customer == customers[autoCall[p].customerId]
        invoiceAmount == OrElse(customer.one_time_price,
                             OrElse(customer.monthly_price,
                                 OrElse(customer.total_value, Num(0)))).v
        taxRate == OrElse(customer.default_tax_rate, Num(DefaultAutoTaxRate)).v
        dueDays == OrElse(customer.default_due_days, Num(DefaultAutoDueDays)).v
    IN  [id             |-> p,
         customer_id    |-> autoCall[p].customerId,
         invoice_number |-> autoCall[p].invoiceNumber,
         amount         |-> invoiceAmount,
         tax            |-> taxRate,
         total          |-> TotalOf(invoiceAmount, taxRate),
         status         |-> "draft",
         due_date       |-> CURDATE + dueDays,
         created_at     |-> now]

\* INSERT INTO invoices, outside any transaction.  invoice_number is UNIQUE:
\* a number taken in the meantime makes the statement throw, and the catch
\* returns null.
AutoInsertInvoice(p) ==
    /\ autoCall[p].pc = "insert"
    /\ IF NumberTaken(autoCall[p].invoiceNumber)
       THEN /\ autoCall' = [autoCall EXCEPT ![p].pc = "done", ![p].result = Null]
            /\ UNCHANGED invoices
       ELSE /\ invoices' = Append(invoices, AutoInvoiceRow(p))
            /\ autoCall' = [autoCall EXCEPT ![p].pc = "item"]
    /\ UNCHANGED <<now, invoice_items, postCall, invoiceFrame>>

\* INSERT INTO invoice_items, and the return of the created invoice.
AutoInsertItem(p) ==
    /\ autoCall[p].pc = "item"
    /\ LET row == CHOOSE r \in {invoices[k] : k \in DOMAIN invoices} : r.id = p
       IN  invoice_items' = invoice_items \cup
               {[invoice_id |-> p, line |-> 1, quantity |-> 1,
                 rate |-> row.amount, amount |-> row.amount]}
    /\ autoCall' = [autoCall EXCEPT ![p].pc = "done", ![p].result = Str(p)]
    /\ UNCHANGED <<now, invoices, postCall, invoiceFrame>>

\* A failed read of the latest invoice or of the number check is passed
\* over and the call goes on to its INSERT.
AutoError_Open(p) ==
    /\ autoCall[p].pc \in {"last", "check", "insert", "item"}
    /\ autoCall' = IF autoCall[p].pc \in {"last", "check"}
                   THEN [autoCall EXCEPT ![p].pc = "insert", ![p].threw = TRUE,
                                         ![p].threwAt = autoCall[p].pc]
                   ELSE [autoCall EXCEPT ![p].pc = "done", ![p].result = Null,
                                         ![p].threw = TRUE, ![p].threwAt = autoCall[p].pc]
    /\ UNCHANGED <<now, invoices, invoice_items, postCall, invoiceFrame>>

\* The store fails one of the call's statements: the catch logs it and
\* returns null.
AutoError(p) ==
    /\ autoCall[p].pc \in {"last", "check", "insert", "item"}
    /\ autoCall' = [autoCall EXCEPT ![p].pc = "done", ![p].result = Null, ![p].threw = TRUE,
                                    ![p].threwAt = autoCall[p].pc]
    /\ UNCHANGED <<now, invoices, invoice_items, postCall, invoiceFrame>>

\* Number(a) + Number(b), NaN when either is.
JsAdd(a, b) == IF a.k = "number" /\ b.k = "number" THEN Num(a.v + b.v) ELSE NaN

\* items.reduce((sum, item) => sum + Number(item.amount || 0), 0)
RECURSIVE SumItems(_)
SumItems(items) ==
    IF items = <<>> THEN Num(0)
    ELSE JsAdd(SumItems(SubSeq(items, 1, Len(items) - 1)),
               ToNumber(OrElse(items[Len(items)].amount, Num(0))))

DefaultInvoiceDueDays == 7

\* a + (a * t) / 100 on JS numbers; the amounts of the model make it exact.
\* The total without the tax.
JsTotal_NoTax(a, t) == a

JsTotal(a, t) ==
    IF a.k = "number" /\ t.k = "number" THEN Num(TotalOf(a.v, t.v)) ELSE NaN

buildInvoiceFromCustomer(customer, body) ==
    LET derivedAmount == IF body.amount = Undefined /\ body.items.k = "array"
                         THEN SumItems(body.items.v)
                         ELSE body.amount
        defaultTaxRate == Coalesce(customer.default_tax_rate, Num(0))
        finalAmount == ToNumber(OrElse(derivedAmount, Num(0)))
        finalTax == IF body.tax # Undefined THEN ToNumber(body.tax)
                    ELSE OrElse(defaultTaxRate, Num(0))
        finalTotal == IF body.total # Undefined THEN ToNumber(body.total)
                      ELSE JsTotal(finalAmount, finalTax)
        finalIssueDate == IF Truthy(body.issueDate) THEN toSqlDate(body.issueDate)
                          ELSE toSqlDate(DateObj(now))
        dueDays == ToNumber(Coalesce(customer.default_due_days, Num(DefaultInvoiceDueDays)))
        finalDueDate == IF Truthy(body.dueDate) THEN toSqlDate(body.dueDate)
                        ELSE IF dueDays.k = "number"
                             THEN toSqlDate(DateObj(now + dueDays.v * TicksPerDay))
                             ELSE Null
    IN  [amount    |-> finalAmount,
         tax       |-> finalTax,
         total     |-> finalTotal,
         status    |-> OrElse(body.status, Str("draft")),
         issueDate |-> finalIssueDate,
         dueDate   |-> finalDueDate,
         notes     |-> Coalesce(body.notes, Coalesce(customer.default_invoice_notes, Null))]

\* A call of buildInvoiceFromCustomer on a customer row and a request body.
InvoiceBuildCustomers ==
    [default_tax_rate      : {Null, Num(18)},
     default_due_days      : {Null, Num(0), Num(15)},
     default_invoice_notes : {Null}]

InvoiceBuildItems == <<[amount |-> Num(400)], [amount |-> Num(600)]>>

InvoiceBuildBodies ==
    [amount    : {Undefined, Num(1000)},
     tax       : {Undefined, Num(18), Num(5)},
     total     : {Undefined, Num(999)},
     status    : {Undefined},
     issueDate : {Undefined, Ymd(0), Ymd(Jan31)},
     dueDate   : {Undefined, Ymd(Feb29)},
     notes     : {Undefined},
     items     : {Undefined, [k |-> "array", v |-> InvoiceBuildItems]}]

InvoiceBuildClock == {1, Midnight(Jan31)}

InitInvoiceBuild ==
    /\ now \in InvoiceBuildClock
    /\ bCustomer \in InvoiceBuildCustomers
    /\ bBody \in InvoiceBuildBodies
    /\ built = NotBuilt
    /\ addMonthsDate = Undefined
    /\ addMonthsN = 0
    /\ addMonthsResult = Undefined
    /\ renewal_reminders = <<>>
    /\ whatsapp_messages = <<>>
    /\ sweep = <<>>
    /\ invoices = <<>>
    /\ invoice_items = <<>>
    /\ autoCall = <<>>
    /\ postCall = <<>>
    /\ putCall = <<>>
    /\ customers = <<>>
    /\ renewals = <<>>
    /\ genCall = <<>>
    /\ statusJob = "idle"

BuildInvoice ==
    /\ built = NotBuilt
    /\ built' = buildInvoiceFromCustomer(bCustomer, bBody)
    /\ UNCHANGED <<now, bCustomer, bBody, addMonthsDate, addMonthsN, addMonthsResult,
                   varsReminder, varsInvoice, varsRenewal, customers>>

NextInvoiceBuild == BuildInvoice

SpecInvoiceBuild == InitInvoiceBuild /\ [][NextInvoiceBuild]_vars

\* C15: an invoice built without an override total has
\* total = amount + amount * tax / 100 for its resolved amount and tax; an
\* override total is the total as supplied.
C15_TotalFromAmountAndTax ==
    built # NotBuilt =>
        IF bBody.total = Undefined
        THEN /\ built.total.k = "number"
             /\ 100 * built.total.v = 100 * built.amount.v + built.amount.v * built.tax.v
        ELSE built.total = bBody.total

\* Amount 1000 and tax 18 with no override total: 1180.
C15_Witness ==
    /\ built # NotBuilt
    /\ bBody.total = Undefined
    /\ built.amount = Num(1000)
    /\ built.tax = Num(18)
    /\ built.total = Num(1180)

\* C16: an invoice built without an override dueDate is due on its resolved
\* issueDate plus the customer's default_due_days (7 when the customer has
\* none), whatever issueDate the caller supplied.
C16_DueDateFromIssueDate ==
    ( /\ built # NotBuilt
      /\ ~Truthy(bBody.dueDate)
      /\ built.issueDate.k = "ymd" )
    => built.dueDate =
           Ymd(built.issueDate.v + Coalesce(bCustomer.default_due_days, Num(7)).v)

\* req.body of POST /invoices carrying only customerId and items.
ItemsBody(items) ==
    [amount |-> Undefined, tax |-> Undefined, total |-> Undefined, status |-> Undefined,
     issueDate |-> Undefined, dueDate |-> Undefined, notes |-> Undefined,
     items |-> [k |-> "array", v |-> items]]

MaxItems == 2

ItemAmount == 100

\* The items arrays a request carries: isArray({ min: 1 }).
PostItems == UNION {[1 .. n -> {[amount |-> Num(ItemAmount)]}] : n \in 1 .. MaxItems}

PostIdle ==
    [pc |-> "idle", customerId |-> 0, items |-> <<>>, built |-> Undefined,
     invoiceNumber |-> AutoInvoiceNumber(0), txInvoice |-> <<>>, txItems |-> {},
     status |-> 0]

\* POST /invoices up to beginTransaction(): the customer is read, the
\* invoice built and its number drawn.
PostStart(q, c, items, random) ==
    /\ postCall[q].pc = "idle"
    /\ postCall' = [postCall EXCEPT
           ![q].pc = "insert",
           ![q].customerId = c,
           ![q].items = items,
           ![q].built = buildInvoiceFromCustomer(customers[c], ItemsBody(items)),
           ![q].invoiceNumber = generateInvoiceNumber(random)]
    /\ UNCHANGED <<now, invoices, invoice_items, autoCall, invoiceFrame>>

PostInvoiceRow(q) ==
    LET b == postCall[q].built
    IN  [id             |-> q,
         customer_id    |-> postCall[q].customerId,
         invoice_number |-> postCall[q].invoiceNumber,
         amount         |-> b.amount.v,
         tax            |-> b.tax.v,
         total          |-> b.total.v,
         status         |-> b.status.v,
         due_date       |-> b.dueDate.v,
         created_at     |-> now]

\* The INSERT naming issue_date fails (the table has no such column) and the
\* INSERT without it runs in the transaction; a taken invoice_number makes
\* that one throw too, and the outer catch rolls back and answers 500.
PostInsertInvoice(q) ==
    /\ postCall[q].pc = "insert"
    /\ postCall' = IF NumberTaken(postCall[q].invoiceNumber)
                   THEN [postCall EXCEPT ![q].pc = "done", ![q].status = 500]
                   ELSE [postCall EXCEPT ![q].pc = "items",
                                         ![q].txInvoice = <<PostInvoiceRow(q)>>]
    /\ UNCHANGED <<now, invoices, invoice_items, autoCall, invoiceFrame>>

\* One turn of the items loop, in the transaction.
PostInsertItem(q) ==
    /\ postCall[q].pc = "items"
    /\ Cardinality(postCall[q].txItems) < Len(postCall[q].items)
    /\ LET line == Cardinality(postCall[q].txItems) + 1
           item == postCall[q].items[line]
       IN  postCall' = [postCall EXCEPT ![q].txItems = @ \cup
               {[invoice_id |-> q, line |-> line, quantity |-> 1,
                 rate |-> item.amount.v, amount |-> item.amount.v]}]
    /\ UNCHANGED <<now, invoices, invoice_items, autoCall, invoiceFrame>>

\* connection.commit(): the transaction's rows become the store's; 201.
PostCommit(q) ==
    /\ postCall[q].pc = "items"
    /\ Cardinality(postCall[q].txItems) = Len(postCall[q].items)
    /\ invoices' = invoices \o postCall[q].txInvoice
    /\ invoice_items' = invoice_items \cup postCall[q].txItems
    /\ postCall' = [postCall EXCEPT ![q].pc = "done", ![q].status = 201,
                                    ![q].txInvoice = <<>>, ![q].txItems = {}]
    /\ UNCHANGED <<now, autoCall, invoiceFrame>>

\* The store fails a statement of the transaction (or the commit): the catch
\* rolls back, the rows of the transaction are gone, and the answer is 500.
PostError(q) ==
    /\ postCall[q].pc \in {"insert", "items"}
    /\ postCall' = [postCall EXCEPT ![q].pc = "done", ![q].status = 500,
                                    ![q].txInvoice = <<>>, ![q].txItems = {}]
    /\ UNCHANGED <<now, invoices, invoice_items, autoCall, invoiceFrame>>

InvoiceTick ==
    /\ now < MaxInvoiceTick
    /\ now' = now + 1
    /\ UNCHANGED <<varsInvoice, invoiceFrame>>

InvoiceCustomerRows ==
    {[id |-> 0, one_time_price |-> otp, monthly_price |-> Null,
      total_value |-> Num(10 * ItemAmount), default_tax_rate |-> tax,
      default_due_days |-> Null, default_invoice_notes |-> Null] :
        otp \in {Null, Num(5 * ItemAmount)}, tax \in {Null, Num(10)}}

InitInvoice ==
    /\ now = 0
    /\ customers \in {[c \in InvoiceCustomerIds |-> [row EXCEPT !.id = c]] :
                        row \in InvoiceCustomerRows}
    /\ invoices = <<>>
    /\ invoice_items = {}
    /\ autoCall = [p \in AutoCalls |-> AutoIdle]
    /\ postCall = [q \in PostCalls |-> PostIdle]
    /\ putCall = <<>>
    /\ renewal_reminders = <<>>
    /\ whatsapp_messages = EmptyBag
    /\ sweep = [p \in SweepRuns |-> SweepIdle]
    /\ renewals = <<>>
    /\ genCall = <<>>
    /\ statusJob = StatusJobIdle
    /\ bCustomer = Undefined
    /\ bBody = Undefined
    /\ built = NotBuilt
    /\ addMonthsDate = Undefined
    /\ addMonthsN = 0
    /\ addMonthsResult = Undefined

NextInvoice ==
    \/ \E p \in AutoCalls, c \in InvoiceCustomerIds : AutoStart(p, c)
    \/ \E p \in AutoCalls : AutoSelectLast(p)
    \/ \E p \in AutoCalls : AutoCheck(p)
    \/ \E p \in AutoCalls : AutoInsertInvoice(p)
    \/ \E p \in AutoCalls : AutoInsertItem(p)
    \/ \E p \in AutoCalls : AutoError(p)
    \/ \E q \in PostCalls, c \in InvoiceCustomerIds, items \in PostItems, random \in 0 .. MaxRandom :
           PostStart(q, c, items, random)
    \/ \E q \in PostCalls : PostInsertInvoice(q)
    \/ \E q \in PostCalls : PostInsertItem(q)
    \/ \E q \in PostCalls : PostCommit(q)
    \/ \E q \in PostCalls : PostError(q)
    \/ InvoiceTick

SpecInvoice == InitInvoice /\ [][NextInvoice]_vars

InvoicesOf(ids) == {k \in DOMAIN invoices : invoices[k].id \in ids}

ItemsOf(id) == {item \in invoice_items : item.invoice_id = id}

\* C3: two createAutoInvoice calls for the same customer, who had no invoice
\* before them, both returned without a store error: exactly one invoice was
\* created for the customer and each call returned a reference to it.
C3_ExactlyOneInvoicePerCustomer ==
    \A p, q \in AutoCalls :
        ( /\ p # q
          /\ autoCall[p].pc = "done" /\ autoCall[q].pc = "done"
          /\ autoCall[p].customerId = autoCall[q].customerId
          /\ ~autoCall[p].threw /\ ~autoCall[q].threw
          /\ \A k \in DOMAIN invoices :
                 invoices[k].customer_id = autoCall[p].customerId => invoices[k].id \in {p, q} )
        => /\ Cardinality(InvoicesOf({p, q})) = 1
           /\ \E k \in InvoicesOf({p, q}) :
                  /\ autoCall[p].result = Str(invoices[k].id)
                  /\ autoCall[q].result = Str(invoices[k].id)

\* C5: once a creation has ended, a creation that failed (createAutoInvoice
\* returning null, POST /invoices answering 500) has left neither an invoice
\* row nor item rows, and every invoice a creation left has its items.
C5_NoHeaderWithoutItems ==
    /\ \A p \in AutoCalls :
           autoCall[p].pc = "done" =>
               /\ autoCall[p].result = Null => InvoicesOf({p}) = {} /\ ItemsOf(p) = {}
               /\ InvoicesOf({p}) # {} => ItemsOf(p) # {}
    /\ \A q \in PostCalls :
           postCall[q].pc = "done" =>
               /\ postCall[q].status = 500 => InvoicesOf({q}) = {} /\ ItemsOf(q) = {}
               /\ InvoicesOf({q}) # {} => Cardinality(ItemsOf(q)) = Len(postCall[q].items)

\* C17: a createAutoInvoice call whose number collides with an existing
\* invoice's number takes a new number and still creates its invoice: a call
\* that met no store error returns its invoice, never null.
C17_CollisionRetried ==
    \A p \in AutoCalls :
        (autoCall[p].pc = "done" /\ ~autoCall[p].threw)
        => (autoCall[p].result.k # "null" /\ InvoicesOf({p}) # {})

\* C18: a createAutoInvoice call whose read of the latest invoice or whose
\* number check failed has inserted no invoice row and no invoice_items row.
C18_FailsClosed ==
    \A p \in AutoCalls :
        (autoCall[p].threw /\ autoCall[p].threwAt \in {"last", "check"})
        => (InvoicesOf({p}) = {} /\ ItemsOf(p) = {})

\* A call ended by a failed number check, in a store where another creation
\* went through.
C18_Witness ==
    \E p \in AutoCalls :
        /\ autoCall[p].pc = "done"
        /\ autoCall[p].threwAt = "check"
        /\ autoCall[p].result.k = "null"
        /\ invoices # <<>>
        /\ InvoicesOf({p}) = {}

\* C26: the persisted invoices have pairwise distinct invoice numbers, and
\* the numbers of the invoices createAutoInvoice created are strictly
\* increasing in the order of their creation, also with invoices of
\* POST /invoices in between.
C26_DistinctAndIncreasing ==
    \A j, k \in DOMAIN invoices :
        j < k =>
            /\ invoices[j].invoice_number # invoices[k].invoice_number
            /\ (invoices[j].id \in AutoCalls /\ invoices[k].id \in AutoCalls) =>
                   ParseInvoiceNumber(invoices[j].invoice_number)
                       < ParseInvoiceNumber(invoices[k].invoice_number)

\* The first half alone: no two persisted invoices share a number.
C26_Distinct ==
    \A j, k \in DOMAIN invoices :
        j < k => invoices[j].invoice_number # invoices[k].invoice_number

-----------------------------------------------------------------------------
(* routes/invoices.js PUT /invoices/:id *)

PutCalls == {"u1", "u2"}

\* The invoice the requests are about.
PutInvoiceId == "i1"

\* The rows of invoice_items a request writes for the items of its body.
PutItemRows(items) ==
    {[invoice_id |-> PutInvoiceId, line |-> n, quantity |-> 1,
      rate |-> items[n].amount.v, amount |-> items[n].amount.v] : n \in 1 .. Len(items)}

\* The invoice row after UPDATE invoices SET status = ? (the one updatable
\* field the model carries).
PutUpdatedRow(row, body) ==
    IF Truthy(body.status) THEN [row EXCEPT !.status = body.status.v] ELSE row

\* before is the invoice and its items as the request found them; failedAt
\* and failedAfter record the statement that threw and the items inserted
\* before it; committed records that commit() returned.
PutIdle ==
    [pc |-> "idle", body |-> Undefined, txRow |-> <<>>, txDeleted |-> FALSE, txItems |-> {},
     before |-> <<>>, committed |-> FALSE, failedAt |-> "none", failedAfter |-> 0, status |-> 0]

putFrame == <<now, autoCall, postCall, customers, varsReminder, varsRenewal, varsBuild>>

\* The rows of the store another request's open transaction has locked.
PutLocked(u) ==
    \E v \in PutCalls \ {u} : putCall[v].txRow # <<>> \/ putCall[v].txDeleted

\* The handler up to beginTransaction(): the invoice is looked up (404 when
\* it is gone).
PutStart(u, body) ==
    /\ putCall[u].pc = "idle"
    /\ putCall' = IF invoices = <<>>
                  THEN [putCall EXCEPT ![u].pc = "done", ![u].status = 404]
                  ELSE [putCall EXCEPT ![u].pc = "update", ![u].body = body]
    /\ UNCHANGED <<invoices, invoice_items, putFrame>>

\* UPDATE invoices SET ... WHERE id = ?, in the transaction, when the body
\* names a field.  The fields of the body decide the statement; issueDate
\* maps to the column issue_date, which the table does not have, so that
\* statement throws.  before is taken at the first statement.
PutUpdate(u) ==
    /\ putCall[u].pc = "update"
    /\ ~Truthy(putCall[u].body.issueDate)
    /\ Truthy(putCall[u].body.status) => ~PutLocked(u)
    /\ putCall' = [putCall EXCEPT
           ![u].pc = "delete",
           ![u].before = <<invoices[1], ItemsOf(PutInvoiceId)>>,
           ![u].txRow = IF Truthy(putCall[u].body.status)
                        THEN <<PutUpdatedRow(invoices[1], putCall[u].body)>> ELSE <<>>]
    /\ UNCHANGED <<invoices, invoice_items, putFrame>>

\* DELETE FROM invoice_items WHERE invoice_id = ?, in the transaction, when
\* the body carries an items array; without one the handler goes to commit.
PutDelete(u) ==
    /\ putCall[u].pc = "delete"
    /\ putCall[u].body.items.k = "array" => ~PutLocked(u)
    /\ putCall' = IF putCall[u].body.items.k = "array"
                  THEN [putCall EXCEPT ![u].pc = "items", ![u].txDeleted = TRUE,
                                       ![u].before = <<invoices[1], ItemsOf(PutInvoiceId)>>]
                  ELSE [putCall EXCEPT ![u].pc = "commit"]
    /\ UNCHANGED <<invoices, invoice_items, putFrame>>

\* One turn of the items loop, in the transaction.
PutInsertItem(u) ==
    /\ putCall[u].pc = "items"
    /\ Cardinality(putCall[u].txItems) < Len(putCall[u].body.items.v)
    /\ LET n == Cardinality(putCall[u].txItems) + 1
       IN  putCall' = [putCall EXCEPT ![u].txItems =
               @ \cup {row \in PutItemRows(putCall[u].body.items.v) : row.line = n}]
    /\ UNCHANGED <<invoices, invoice_items, putFrame>>

\* The loop is over.
PutItemsDone(u) ==
    /\ putCall[u].pc = "items"
    /\ Cardinality(putCall[u].txItems) = Len(putCall[u].body.items.v)
    /\ putCall' = [putCall EXCEPT ![u].pc = "commit"]
    /\ UNCHANGED <<invoices, invoice_items, putFrame>>

\* connection.commit(): the writes of the transaction become the store's.
PutCommit(u) ==
    /\ putCall[u].pc = "commit"
    /\ invoices' = IF putCall[u].txRow # <<>>
                   THEN [invoices EXCEPT ![1] = putCall[u].txRow[1]] ELSE invoices
    /\ invoice_items' = IF putCall[u].txDeleted
                        THEN (invoice_items \ ItemsOf(PutInvoiceId)) \cup putCall[u].txItems
                        ELSE invoice_items
    /\ putCall' = [putCall EXCEPT ![u].pc = "read", ![u].committed = TRUE,
                                  ![u].txRow = <<>>, ![u].txDeleted = FALSE,
                                  ![u].txItems = {}]
    /\ UNCHANGED putFrame

\* The invoice and its items are read back and sent: 200.
PutRead(u) ==
    /\ putCall[u].pc = "read"
    /\ putCall' = [putCall EXCEPT ![u].pc = "done", ![u].status = 200]
    /\ UNCHANGED <<invoices, invoice_items, putFrame>>

\* A failed statement with every statement on its own (autocommit, no
\* transaction): what ran before the failure stays in the store.
PutError_NoRollback(u) ==
    /\ putCall[u].pc \in {"update", "delete", "items", "commit", "read"}
    /\ invoices' = IF putCall[u].txRow # <<>>
                   THEN [invoices EXCEPT ![1] = putCall[u].txRow[1]] ELSE invoices
    /\ invoice_items' = IF putCall[u].txDeleted
                        THEN (invoice_items \ ItemsOf(PutInvoiceId)) \cup putCall[u].txItems
                        ELSE invoice_items
    /\ putCall' = [putCall EXCEPT ![u].pc = "done", ![u].status = 500,
                                  ![u].failedAt = putCall[u].pc,
                                  ![u].failedAfter = Cardinality(putCall[u].txItems),
                                  ![u].txRow = <<>>, ![u].txDeleted = FALSE,
                                  ![u].txItems = {}]
    /\ UNCHANGED putFrame

\* A statement of the handler throws (the UPDATE always does when the body
\* names issueDate): the inner catch rolls the transaction back, which
\* drops its writes, and the outer catch answers 500.  After commit() the
\* rollback finds nothing to undo.
PutError(u) ==
    /\ putCall[u].pc \in {"update", "delete", "items", "commit", "read"}
    /\ putCall' = [putCall EXCEPT ![u].pc = "done", ![u].status = 500,
                                  ![u].failedAt = putCall[u].pc,
                                  ![u].failedAfter = Cardinality(putCall[u].txItems),
                                  ![u].txRow = <<>>, ![u].txDeleted = FALSE,
                                  ![u].txItems = {}]
    /\ UNCHANGED <<invoices, invoice_items, putFrame>>

\* The items arrays of the bodies: none, empty, or new lines.
PutItems ==
    {Undefined} \cup
    {[k |-> "array", v |-> items] :
        items \in UNION {[1 .. n -> {[amount |-> Num(2 * ItemAmount)]}] : n \in 0 .. MaxItems}}

PutBodies ==
    [status : {Undefined, Str("sent")}, issueDate : {Undefined, Ymd(0)}, items : PutItems]

\* The invoice as an earlier creation left it, with one or two items.
PutInvoiceRow ==
    [id |-> PutInvoiceId, customer_id |-> 1, invoice_number |-> AutoInvoiceNumber(1),
     amount |-> MaxItems * ItemAmount, tax |-> 0, total |-> MaxItems * ItemAmount,
     status |-> "draft", due_date |-> DefaultAutoDueDays, created_at |-> 0]

PutOldItems ==
    {{[invoice_id |-> PutInvoiceId, line |-> n, quantity |-> 1,
       rate |-> ItemAmount, amount |-> ItemAmount] : n \in 1 .. m} : m \in 1 .. MaxItems}

InitInvoiceUpdate ==
    /\ now = 0
    /\ invoices = <<PutInvoiceRow>>
    /\ invoice_items \in PutOldItems
    /\ putCall = [u \in PutCalls |-> PutIdle]
    /\ autoCall = [p \in AutoCalls |-> AutoIdle]
    /\ postCall = [q \in PostCalls |-> PostIdle]
    /\ customers = <<>>
    /\ renewal_reminders = <<>>
    /\ whatsapp_messages = EmptyBag
    /\ sweep = [p \in SweepRuns |-> SweepIdle]
    /\ renewals = <<>>
    /\ genCall = <<>>
    /\ statusJob = StatusJobIdle
    /\ bCustomer = Undefined
    /\ bBody = Undefined
    /\ built = NotBuilt
    /\ addMonthsDate = Undefined
    /\ addMonthsN = 0
    /\ addMonthsResult = Undefined

NextInvoiceUpdate ==
    \/ \E u \in PutCalls, body \in PutBodies : PutStart(u, body)
    \/ \E u \in PutCalls : PutUpdate(u)
    \/ \E u \in PutCalls : PutDelete(u)
    \/ \E u \in PutCalls : PutInsertItem(u)
    \/ \E u \in PutCalls : PutItemsDone(u)
    \/ \E u \in PutCalls : PutCommit(u)
    \/ \E u \in PutCalls : PutRead(u)
    \/ \E u \in PutCalls : PutError(u)

SpecInvoiceUpdate == InitInvoiceUpdate /\ [][NextInvoiceUpdate]_vars

\* The invoice and its items as a request leaves them when all of it is
\* applied to what it found.
C30_Applied(u) ==
    <<PutUpdatedRow(putCall[u].before[1], putCall[u].body),
      IF putCall[u].body.items.k = "array"
      THEN PutItemRows(putCall[u].body.items.v) ELSE putCall[u].before[2]>>

\* The store holds the items of one request in full, or the old items in
\* full.
C30_WholeItemSet ==
    \/ ItemsOf(PutInvoiceId) \in PutOldItems
    \/ \E items \in PutItems :
           items.k = "array" /\ ItemsOf(PutInvoiceId) = PutItemRows(items.v)

\* C30: a request whose UPDATE, DELETE or item INSERT failed has committed
\* nothing: while its transaction holds the rows, and after its rollback
\* if no other request wrote since, the invoice and its items are as the
\* request found them; and the committed items of the invoice are at all
\* times one complete set, never the new items in part.
C30_AtomicReplace ==
    /\ C30_WholeItemSet
    /\ \A u \in PutCalls :
           /\ (putCall[u].txRow # <<>> \/ putCall[u].txDeleted) =>
                  <<invoices[1], ItemsOf(PutInvoiceId)>> = putCall[u].before
           /\ ( /\ putCall[u].pc = "done" /\ putCall[u].status = 500
                /\ ~putCall[u].committed
                /\ \A v \in PutCalls \ {u} : putCall[v].pc = "idle" )
                  => ( putCall[u].before = <<>>
                       \/ <<invoices[1], ItemsOf(PutInvoiceId)>> = putCall[u].before )
           /\ ( /\ putCall[u].pc = "read"
                /\ \A v \in PutCalls \ {u} : ~putCall[v].committed )
                  => <<invoices[1], ItemsOf(PutInvoiceId)>> = C30_Applied(u)

\* A request that had updated the status, deleted the old items and
\* inserted the first of two new items failed on the second: the invoice
\* is still a draft with its old items.
C30_Witness ==
    \E u \in PutCalls :
        /\ putCall[u].pc = "done" /\ putCall[u].status = 500
        /\ putCall[u].failedAt = "items" /\ putCall[u].failedAfter = 1
        /\ Truthy(putCall[u].body.status)
        /\ Len(putCall[u].body.items.v) = 2
        /\ invoices[1].status = "draft"
        /\ ItemsOf(PutInvoiceId) \in PutOldItems

-----------------------------------------------------------------------------
(* routes/renewals.js POST /renewals/auto-generate *)

GenCalls == {"g1", "g2"}

GenCustomerIds == 1 .. 3

\* req.body = {} as the handler passes it to the builder.
EmptyBody ==
    [service |-> Undefined, amount |-> Undefined, expiryDate |-> Undefined,
     status |-> Undefined, reminderDays |-> Undefined, notes |-> Undefined]

RenewalsOfCustomer(c) == {k \in DOMAIN renewals : renewals[k].customer_id = c}

\* SELECT c.* FROM customers c LEFT JOIN renewals r ON r.customer_id = c.id
\* WHERE r.id IS NULL, as the rows of customers 1 .. n in id order.
RECURSIVE customersWithoutRenewal(_)
customersWithoutRenewal(n) ==
    IF n = 0 THEN <<>>
    ELSE IF RenewalsOfCustomer(n) = {}
         THEN Append(customersWithoutRenewal(n - 1), customers[n])
         ELSE customersWithoutRenewal(n - 1)

GenIdle == [pc |-> "idle", customers |-> <<>>, i |-> 0, status |-> 0, created |-> 0]

\* What no step of auto-generation touches.
generateFrame == <<customers, statusJob, varsReminder, varsInvoice, varsBuild>>

\* The handler reads the customers without a renewal; with none it answers
\* at once.
GenSelect(g) ==
    /\ genCall[g].pc = "idle"
    /\ LET rows == customersWithoutRenewal(Len(customers))
       IN  genCall' = IF rows = <<>>
                      THEN [genCall EXCEPT ![g] = [GenIdle EXCEPT !.status = 200]]
                      ELSE [genCall EXCEPT ![g] = [GenIdle EXCEPT !.pc = "insert",
                                                                  !.customers = rows,
                                                                  !.i = 1]]
    /\ UNCHANGED <<now, renewals, generateFrame>>

GenRenewalRow(customer) ==
    LET b == buildRenewalFromCustomer(customer, EmptyBody)
    IN  [id            |-> Len(renewals) + 1,
         customer_id   |-> customer.id,
         service       |-> b.service.v,
         amount        |-> b.amount.v,
         expiry_date   |-> b.expiryDate.v,
         status        |-> b.status.v,
         reminder_days |-> b.reminderDays.v]

\* One turn of the loop: the renewal is built from the customer row read by
\* the SELECT and inserted; expiry_date is NOT NULL, so a renewal built
\* without one makes the INSERT throw.  After the last turn the handler
\* answers with the number created.
GenInsert(g) ==
    /\ genCall[g].pc = "insert"
    /\ LET customer == genCall[g].customers[genCall[g].i]
           last == genCall[g].i = Len(genCall[g].customers)
       IN  IF buildRenewalFromCustomer(customer, EmptyBody).expiryDate.k # "ymd"
           THEN /\ genCall' = [genCall EXCEPT ![g].pc = "idle", ![g].status = 500]
                /\ UNCHANGED renewals
           ELSE /\ renewals' = Append(renewals, GenRenewalRow(customer))
                /\ genCall' = [genCall EXCEPT
                       ![g].pc = IF last THEN "idle" ELSE "insert",
                       ![g].i = @ + 1,
                       ![g].created = @ + 1,
                       ![g].status = IF last THEN 200 ELSE 0]
    /\ UNCHANGED <<now, generateFrame>>

\* The store fails an INSERT: the catch answers 500 and the renewals
\* inserted by earlier turns stay.
GenError(g) ==
    /\ genCall[g].pc = "insert"
    /\ genCall' = [genCall EXCEPT ![g].pc = "idle", ![g].status = 500]
    /\ UNCHANGED <<now, renewals, generateFrame>>

GenTick ==
    /\ now < MaxInvoiceTick
    /\ now' = now + 1
    /\ UNCHANGED <<renewals, genCall, generateFrame>>

GenCustomerRows ==
    [id                            : {0},
     created_at                    : {DateObj(0)},
     recurring_interval            : BuildInterval,
     recurring_service             : {Null, Str("Hosting")},
     service                       : {Null},
     recurring_amount              : {Null},
     default_renewal_status        : {Null},
     default_renewal_reminder_days : {Null},
     default_renewal_notes         : {Null}]

\* The renewal a customer may already have when the requests begin.
GenEarlierRenewal(c) ==
    [id |-> 1, customer_id |-> c, service |-> "Service", amount |-> 0,
     expiry_date |-> Jan31, status |-> "active", reminder_days |-> DefaultReminderDays]

InitGenerate ==
    /\ now = 0
    /\ customers \in {[c \in GenCustomerIds |-> [row EXCEPT !.id = c]] : row \in GenCustomerRows}
    /\ renewals \in {<<>>} \cup {<<GenEarlierRenewal(c)>> : c \in GenCustomerIds}
    /\ genCall = [g \in GenCalls |-> GenIdle]
    /\ statusJob = StatusJobIdle
    /\ invoices = <<>>
    /\ invoice_items = {}
    /\ autoCall = [p \in AutoCalls |-> AutoIdle]
    /\ postCall = [q \in PostCalls |-> PostIdle]
    /\ putCall = <<>>
    /\ renewal_reminders = <<>>
    /\ whatsapp_messages = EmptyBag
    /\ sweep = [p \in SweepRuns |-> SweepIdle]
    /\ bCustomer = Undefined
    /\ bBody = Undefined
    /\ built = NotBuilt
    /\ addMonthsDate = Undefined
    /\ addMonthsN = 0
    /\ addMonthsResult = Undefined

NextGenerate ==
    \/ \E g \in GenCalls : GenSelect(g)
    \/ \E g \in GenCalls : GenInsert(g)
    \/ \E g \in GenCalls : GenError(g)
    \/ GenTick

SpecGenerate == InitGenerate /\ [][NextGenerate]_vars

\* C4: whatever requests to POST /renewals/auto-generate have run or are
\* running, no customer has more than one renewal.
C4_AtMostOneRenewalPerCustomer ==
    \A c \in DOMAIN customers : Cardinality(RenewalsOfCustomer(c)) <= 1


-----------------------------------------------------------------------------
(* buildRenewalFromCustomer over the fields it resolves through a chain *)

FieldCustomers ==
    [created_at                    : {DateObj(Midnight(Jan31) + 1)},
     recurring_interval            : {Str("monthly")},
     recurring_service             : {Null, Str("Hosting")},
     service                       : {Null, Str("Website")},
     recurring_amount              : {Null, Num(100)},
     default_renewal_status        : {Null},
     default_renewal_reminder_days : {Null, Num(15)},
     default_renewal_notes         : {Null, Str("yearly plan")}]

\* Bodies that pass the validators of POST /renewals: service is trimmed and
\* may be empty, notes is any string, amount is numeric, reminderDays is a
\* positive integer.
FieldBodies ==
    [service      : {Undefined, Str(""), Str("Email")},
     amount       : {Undefined, Num(0), Num(50)},
     expiryDate   : {Undefined},
     status       : {Undefined},
     reminderDays : {Undefined, Num(7)},
     notes        : {Undefined, Str(""), Str("call first")}]

InitBuildFields ==
    /\ now \in {Midnight(Jan31) + 1, Midnight(Feb29)}
    /\ bCustomer \in FieldCustomers
    /\ bBody \in FieldBodies
    /\ built = NotBuilt
    /\ addMonthsDate = Undefined
    /\ addMonthsN = 0
    /\ addMonthsResult = Undefined
    /\ renewal_reminders = <<>>
    /\ whatsapp_messages = <<>>
    /\ sweep = <<>>
    /\ invoices = <<>>
    /\ invoice_items = <<>>
    /\ autoCall = <<>>
    /\ postCall = <<>>
    /\ putCall = <<>>
    /\ customers = <<>>
    /\ renewals = <<>>
    /\ genCall = <<>>
    /\ statusJob = "idle"

SpecBuildFields == InitBuildFields /\ [][NextBuild]_vars

\* A value that is there and is not the empty string.
C25_NonEmpty(x) == ~Nullish(x) /\ ~(x.k = "string" /\ x.v = "")

\* The first non-empty value of a chain that ends in a literal.
RECURSIVE C25_First(_)
C25_First(chain) ==
    IF Len(chain) = 1 \/ C25_NonEmpty(Head(chain)) THEN Head(chain)
    ELSE C25_First(Tail(chain))

C25_Same(a, b) == a.k = b.k /\ a.v = b.v

\* C25: each of service, amount, reminderDays and notes of the candidate is
\* the first non-empty value of its chain; an empty override counts as absent.
C25_FirstNonEmptyWins ==
    built # NotBuilt =>
        /\ C25_Same(built.service,
               C25_First(<<bBody.service, bCustomer.recurring_service,
                           bCustomer.service, Str("Service")>>))
        /\ C25_Same(built.amount,
               C25_First(<<bBody.amount, bCustomer.recurring_amount, Num(0)>>))
        /\ C25_Same(built.reminderDays,
               C25_First(<<bBody.reminderDays, bCustomer.default_renewal_reminder_days,
                           Num(DefaultReminderDays)>>))
        /\ C25_Same(built.notes,
               C25_First(<<bBody.notes, bCustomer.default_renewal_notes, Null>>))

\* The same with "non-empty" read as "neither null nor undefined".
C25_FirstPresentWins ==
    built # NotBuilt =>
        /\ C25_Same(built.service,
               Coalesce(bBody.service, Coalesce(bCustomer.recurring_service,
                   Coalesce(bCustomer.service, Str("Service")))))
        /\ C25_Same(built.amount,
               Coalesce(bBody.amount, Coalesce(bCustomer.recurring_amount, Num(0))))
        /\ C25_Same(built.reminderDays,
               Coalesce(bBody.reminderDays,
                   Coalesce(bCustomer.default_renewal_reminder_days, Num(DefaultReminderDays))))
        /\ C25_Same(built.notes,
               Coalesce(bBody.notes, Coalesce(bCustomer.default_renewal_notes, Null)))

-----------------------------------------------------------------------------
(* routes/renewals.js POST /renewals, next to POST /renewals/auto-generate *)

RenewalCustomerIds == 1 .. 2

\* The customer row as the handler's SELECT returns it: the columns it names.
\* created_at and service are not among them, so the properties are absent.
PostRenewalCustomer(row) ==
    [row EXCEPT !.created_at = Undefined, !.service = Undefined]

PostRenewalRow(customerId, b) ==
    [id            |-> Len(renewals) + 1,
     customer_id   |-> customerId,
     service       |-> b.service.v,
     amount        |-> b.amount.v,
     expiry_date   |-> b.expiryDate.v,
     status        |-> b.status.v,
     reminder_days |-> b.reminderDays.v]

\* The handler, for a body that passed validation: it reads the customer,
\* builds the renewal, inserts it and, for a recurring customer, moves
\* next_renewal_date one cycle past the expiry date.  expiry_date is NOT NULL:
\* a renewal built without one makes the INSERT throw and nothing is written.
PostRenewal ==
    /\ built = NotBuilt
    /\ LET customerId == bBody.customerId
           customer   == PostRenewalCustomer(customers[customerId])
           b          == buildRenewalFromCustomer(customer, bBody)
           nextDate   == addMonths(b.expiryDate,
                             IF customer.recurring_interval.k = "string"
                                /\ customer.recurring_interval.v = "yearly" THEN 12 ELSE 1)
       IN  /\ built' = b
           /\ IF b.expiryDate.k # "ymd"
              THEN UNCHANGED <<renewals, customers>>
              ELSE /\ renewals' = Append(renewals, PostRenewalRow(customerId, b))
                   /\ customers' =
                          IF customer.recurring_enabled /\ Truthy(nextDate)
                          THEN [customers EXCEPT ![customerId].next_renewal_date = nextDate]
                          ELSE customers
    /\ UNCHANGED <<now, bCustomer, bBody, addMonthsDate, addMonthsN, addMonthsResult,
                   genCall, statusJob, varsReminder, varsInvoice>>

\* created_at lies on the day of the request or on an earlier one.
RenewalCreatedAt == {DateObj(Midnight(0)), DateObj(Midnight(Jan31) + 1)}

RenewalCreateClock == {Midnight(Jan31) + 1, Midnight(Feb29)}

RenewalCustomerRows ==
    [id                            : {0},
     created_at                    : RenewalCreatedAt,
     recurring_enabled             : BOOLEAN,
     recurring_interval            : BuildInterval,
     recurring_service             : {Null},
     next_renewal_date             : {Null},
     service                       : {Null},
     recurring_amount              : {Null},
     default_renewal_status        : {Null},
     default_renewal_reminder_days : {Null},
     default_renewal_notes         : {Null}]

\* req.body of POST /renewals after validation: expiryDate, when present, is
\* an ISO 8601 date.
PostRenewalBodies ==
    [customerId   : RenewalCustomerIds,
     service      : {Undefined},
     amount       : {Undefined},
     expiryDate   : {Undefined, Ymd(Feb29 + 1)},
     status       : {Undefined},
     reminderDays : {Undefined},
     notes        : {Undefined}]

InitRenewalCreate ==
    /\ now \in RenewalCreateClock
    /\ customers \in {[c \in RenewalCustomerIds |-> [row EXCEPT !.id = c]] :
                          row \in RenewalCustomerRows}
    /\ renewals = <<>>
    /\ genCall = [g \in GenCalls |-> GenIdle]
    /\ bBody \in PostRenewalBodies
    /\ built = NotBuilt
    /\ bCustomer = Undefined
    /\ statusJob = StatusJobIdle
    /\ invoices = <<>>
    /\ invoice_items = {}
    /\ autoCall = [p \in AutoCalls |-> AutoIdle]
    /\ postCall = [q \in PostCalls |-> PostIdle]
    /\ putCall = <<>>
    /\ renewal_reminders = <<>>
    /\ whatsapp_messages = EmptyBag
    /\ sweep = [p \in SweepRuns |-> SweepIdle]
    /\ addMonthsDate = Undefined
    /\ addMonthsN = 0
    /\ addMonthsResult = Undefined

NextRenewalCreate ==
    \/ PostRenewal
    \/ \E g \in GenCalls : GenSelect(g)
    \/ \E g \in GenCalls : GenInsert(g)
    \/ \E g \in GenCalls : GenError(g)

SpecRenewalCreate == InitRenewalCreate /\ [][NextRenewalCreate]_vars

\* created_at plus one cycle of the customer's recurring_interval, as a day.
C24_Derived(c) ==
    addMonths(Ymd(DayOfTick(customers[c].created_at.v)),
              IF customers[c].recurring_interval.v = "yearly" THEN 12 ELSE 1).v

\* C24: a renewal created without an override expiryDate, by POST /renewals
\* or by POST /renewals/auto-generate, has as expiry_date its customer's
\* created_at plus one month (monthly) or twelve months (yearly).
C24_ExpiryFromCreatedAt ==
    \A k \in DOMAIN renewals :
        \/ renewals[k].expiry_date = C24_Derived(renewals[k].customer_id)
        \/ /\ Truthy(bBody.expiryDate)
           /\ built.expiryDate.k = "ymd"
           /\ renewals[k].customer_id = bBody.customerId
           /\ renewals[k].expiry_date = built.expiryDate.v

\* The same for the renewals of the customers the request was not for, which
\* are those auto-generation created.
C24_AutoGenerated ==
    \A k \in DOMAIN renewals :
        renewals[k].customer_id # bBody.customerId =>
            renewals[k].expiry_date = C24_Derived(renewals[k].customer_id)

=============================================================================
